---- MODULE Spec2Model ----
(***************************************************************************)
(* Versioned page repository of the page server                            *)
(* (pageserver/src/buffered_repository.rs): timelines, the keyed version   *)
(* store, page reconstruction, the writer interface, the checkpoint        *)
(* materializer, branching and re-opening of timelines.                    *)
(***************************************************************************)
EXTENDS Integers, Sequences, FiniteSets, TLC

\* ------------------------------------------------------------------ bounds
\* Aligned LSNs used by writers and readers are 8, 16, ... , 8 * MaxLsn.
MaxLsn == 3
\* The one LSN in use that is not 8-byte aligned.
UnalignedLsn == 12
\* Block numbers are 0 .. MaxBlk.
MaxBlk == 1
\* Number of store-changing writer calls in one behaviour.
MaxWrites == 3
\* The same where a behaviour has two timelines.
MaxRepoWrites == 2
\* The same where the checkpointer runs step by step beside the ingest.
MaxConcWrites == 2
\* The same where the garbage collector runs beside the ingest.
MaxGcWrites == 2
\* Number of WAL receiver threads spawned in one behaviour.
MaxThreads == 3
\* The same where relations of several databases are listed.
MaxListWrites == 3
\* init is called with 1 .. MaxSlots slots.
MaxSlots == 2
\* Number of VirtualFile calls in one behaviour of one thread.
MaxOps == 4
\* The same where threads call VirtualFiles concurrently.
MaxConcOps == 5
\* Files on disk hold at most MaxFileLen bytes.
MaxFileLen == 2
\* File offsets are kept in words of OffsetBits bits where the code has 64.
OffsetBits == 4
\* Blocks of a PageVersions are 0 .. MaxPvBlk, LSNs there 1 .. MaxPvLsn.
MaxPvBlk == 2
MaxPvLsn == 2
\* Compute connections to a safekeeper timeline at one time.
MaxComputes == 2
\* Commit LSNs of the safekeeper are 0, 8, ... , 8 * MaxSkLsn.
MaxSkLsn == 2
\* The horizon of a garbage collection that keeps some history (bytes of WAL).
GcHorizon == 8
\* Seconds that pass in one step of the clock.
TickSecs == 30

\* --------------------------------------------------------------- constants
\* Lsn::MAX and u32::MAX, as used for the exclusive upper bounds of scans.
LsnMAX == 1000000
U32MAX == 1000000

\* conf.checkpoint_distance of the periodic checkpointer (payload bytes).
CheckpointDistance == 2
\* wait_lsn gives up after TIMEOUT seconds.
TIMEOUT == 60

\* StoreKey variants in declaration order (the serialized variant tag).
MetadataTag == 0
DataTag == 1

\* RelishTag values by their rank in the serialized key order.
\* RelTagMin/RelTagMax are Relation(0,0,0,0) and Relation(MAX,MAX,MAX,MAX),
\* RelA is an ordinary relation fork, CheckpointTag is RelishTag::Checkpoint.
RelTagMin == 0
RelA == 1
RelTagMax == 9
CheckpointTag == 15
\* An SLRU segment, RelishTag::Slru: above every relation and below the
\* single-valued entities.
SlruSeg == 10

Rels == {RelA, CheckpointTag}
\* Relations and SLRU segments are indexed by block number.
IsBlocky(rel) == rel <= SlruSeg
IsSlru(rel) == rel = SlruSeg

\* The size of a page in bytes.
BLCKSZ == 8192

TimelineIds == {"T", "C"}
Blknums == 0 .. MaxBlk
Lsns == {8 * k : k \in 1 .. MaxLsn} \cup {UnalignedLsn}
\* Timelines are created as root "T"; branches are made from "T" to "C".
RootIds == {"T"}
BranchIds == {"C"}
\* The reader threads that call wait_lsn.
Readers == {"r1", "r2"}
BranchLsns == {8, UnalignedLsn, 16}
QueryLsns == Lsns \cup {0}
IsAligned(lsn) == lsn % 8 = 0

\* Option<T>
None == [some |-> FALSE]
Some(x) == [some |-> TRUE, v |-> x]

\* Result<T>
Ok(x) == [ok |-> TRUE, v |-> x]
Err(e) == [ok |-> FALSE, err |-> e]

\* Page contents are sequences of small integers; a WAL record's payload is
\* one too, so that rec.rec.len() is Len(rec.rec).
ZERO_PAGE == <<0>>
Images == {<<10>>, <<11>>}
WalRecords == {[will_init |-> FALSE, rec |-> <<1>>],
               [will_init |-> TRUE, rec |-> <<3, 3>>]}

PvImage(img) == [ty |-> "Image", img |-> img]
PvDelta(rec) == [ty |-> "Delta", rec |-> rec]

\* ------------------------------------------------------------ serialization
\* Byte strings are modelled by the type they were serialized from and the
\* value; raw page bytes are a byte string of their own.
SerPageVersion(pv) == [enc |-> "PageVersion", v |-> pv]
SerMetadataValue(mv) == [enc |-> "MetadataValue", v |-> mv]
SerStoreKey(key) == [enc |-> "StoreKey", v |-> key]
RawBytes(page) == [enc |-> "Bytes", v |-> [ty |-> "Raw", img |-> page]]

\* BeSer::des rejects input that is not exactly one serialized value of the
\* requested type.
DesPageVersion(bytes) ==
    IF bytes.enc = "PageVersion" THEN Ok(bytes.v) ELSE Err("BadInput")
DesMetadataValue(bytes) ==
    IF bytes.enc = "MetadataValue" THEN Ok(bytes.v) ELSE Err("BadInput")

\* --------------------------------------------------------------- store keys
DataKey(rel, blknum, lsn) == <<DataTag, rel, blknum, lsn>>
MetadataKey(rel, lsn) == <<MetadataTag, rel, lsn>>

\* Byte order of serialized keys: big-endian fixed-width fields, so the
\* order is the lexicographic order of the field tuples.
RECURSIVE LexLess(_, _, _)
LexLess(a, b, i) ==
    IF i > Len(a) THEN i <= Len(b)
    ELSE IF i > Len(b) THEN FALSE
    ELSE IF a[i] # b[i] THEN a[i] < b[i]
    ELSE LexLess(a, b, i + 1)
KeyLess(a, b) == LexLess(a, b, 1)
KeyLeq(a, b) == a = b \/ KeyLess(a, b)

\* ToastStore::put and ToastStore::range over the ordered KV engine.
StorePut(st, key, value) ==
    [k \in DOMAIN st \cup {key} |-> IF k = key THEN value ELSE st[k]]
\* range(from..=till)
RangeIncl(st, from, till) ==
    {k \in DOMAIN st : KeyLeq(from, k) /\ KeyLeq(k, till)}
\* range(from..till)
RangeExcl(st, from, till) ==
    {k \in DOMAIN st : KeyLeq(from, k) /\ KeyLess(k, till)}
\* range(..till)
RangeBelow(st, till) == {k \in DOMAIN st : KeyLess(k, till)}
MaxKey(S) == CHOOSE k \in S : \A j \in S : KeyLeq(j, k)
\* The keys of S in the order repeated next_back() calls yield them.
RECURSIVE RevIter(_)
RevIter(S) ==
    IF S = {} THEN <<>>
    ELSE LET k == MaxKey(S) IN <<k>> \o RevIter(S \ {k})

EmptyStore == [k \in {} |-> None]
EmptyMap == [r \in {} |-> None]
MapInsert(m, rel, snap) ==
    [r \in DOMAIN m \cup {rel} |-> IF r = rel THEN snap ELSE m[r]]
MapRemove(m, rel) == [r \in DOMAIN m \ {rel} |-> m[r]]

RECURSIVE Reverse(_)
Reverse(s) == IF s = <<>> THEN <<>> ELSE Append(Reverse(Tail(s)), Head(s))

\* ----------------------------------------------------------------- WAL redo
\* The redo collaborator applies the records to the base image in order; a
\* will_init record re-creates the page without the prior contents.
ApplyRecord(page, rec) == IF rec.will_init THEN rec.rec ELSE page \o rec.rec

RECURSIVE RedoFold(_, _, _)
RedoFold(page, recs, i) ==
    IF i > Len(recs) THEN page
    ELSE RedoFold(ApplyRecord(page, recs[i][2]), recs, i + 1)
RequestRedo(page_img, records) ==
    Ok(RedoFold(IF page_img.some THEN page_img.v ELSE <<>>, records, 1))

\* reconstruct_page that leaves the records in the order they were collected.
ReconstructPageNewestFirst(data) ==
    LET records == data.records IN
    IF records = <<>>
    THEN IF data.page_img.some THEN Ok(data.page_img.v) ELSE Ok(ZERO_PAGE)
    ELSE IF ~data.page_img.some /\ ~records[1][2].will_init
         THEN Ok(ZERO_PAGE)
         ELSE RequestRedo(data.page_img, records)

ReconstructPage(data) ==
    LET records == Reverse(data.records) IN
    IF records = <<>>
    THEN IF data.page_img.some THEN Ok(data.page_img.v) ELSE Ok(ZERO_PAGE)
    ELSE IF ~data.page_img.some /\ ~records[1][2].will_init
         THEN Ok(ZERO_PAGE)
         ELSE RequestRedo(data.page_img, records)

\* The records reconstruct_page hands to request_redo, in the order it hands
\* them over; none when it answers without redo.
RedoRecords(data) ==
    LET records == Reverse(data.records) IN
    IF records = <<>> THEN <<>>
    ELSE IF ~data.page_img.some /\ ~records[1][2].will_init THEN <<>>
    ELSE records

\* -------------------------------------------------------------------- reads
\* A chain walk that goes on past an initializing record while older
\* versions are left.
RECURSIVE CollectChainPastInit(_, _, _, _, _, _)
CollectChainPastInit(st, rel, it, i, will_init, data) ==
    IF i > Len(it)
    THEN IF will_init THEN Ok(data) ELSE Err("BaseImageNotFound")
    ELSE LET key == it[i]
             ver == DesPageVersion(st[key])
         IN IF ~ver.ok THEN ver
            ELSE IF key[1] # DataTag THEN Err("UnexpectedKeyType")
            ELSE IF key[2] # rel THEN Err("AssertSameRelish")
            ELSE IF ver.v.ty = "Image"
                 THEN Ok([data EXCEPT !.page_img = Some(ver.v.img)])
                 ELSE CollectChainPastInit(st, rel, it, i + 1,
                        ver.v.rec.will_init,
                        [data EXCEPT
                           !.records = Append(@, <<key[4], ver.v.rec>>)])

\* The loop that steps the reverse iterator `it` (from position i) until a
\* full page image or an initializing WAL record is found.
RECURSIVE CollectChain(_, _, _, _, _, _)
CollectChain(st, rel, it, i, will_init, data) ==
    IF will_init THEN Ok(data)
    ELSE IF i > Len(it) THEN Err("BaseImageNotFound")
    ELSE LET key == it[i]
             ver == DesPageVersion(st[key])
         IN IF ~ver.ok THEN ver
            ELSE IF key[1] # DataTag THEN Err("UnexpectedKeyType")
            ELSE IF key[2] # rel THEN Err("AssertSameRelish")
            ELSE IF ver.v.ty = "Image"
                 THEN Ok([data EXCEPT !.page_img = Some(ver.v.img)])
                 ELSE CollectChain(st, rel, it, i + 1, ver.v.rec.will_init,
                        [data EXCEPT
                           !.records = Append(@, <<key[4], ver.v.rec>>)])

\* A scan of all the versions of the page, whatever the request LSN.
PageRangeAnyLsn(st, rel, blknum, lsn) ==
    RangeIncl(st, DataKey(rel, blknum, 0), DataKey(rel, blknum, LsnMAX))

\* A scan that leaves out the version stored at the request LSN itself.
PageRangeBelowLsn(st, rel, blknum, lsn) ==
    RangeExcl(st, DataKey(rel, blknum, 0), DataKey(rel, blknum, lsn))

\* The rows get_page_at_lsn scans: range(from..=till) of the page's keys.
PageRange(st, rel, blknum, lsn) ==
    RangeIncl(st, DataKey(rel, blknum, 0), DataKey(rel, blknum, lsn))

\* What get_page_at_lsn finds: the materialized image, or the data it hands
\* to reconstruct_page.
LookupPage(st, rel, blknum, lsn) ==
    IF ~IsBlocky(rel) /\ blknum # 0 THEN Err("InvalidRequest")
    ELSE LET it == RevIter(PageRange(st, rel, blknum, lsn))
         IN IF it = <<>> THEN Err("NotFound")
            ELSE LET ver == DesPageVersion(st[it[1]]) IN
                 IF ~ver.ok THEN ver
                 ELSE IF ver.v.ty = "Image"
                      THEN Ok([kind |-> "Image", img |-> ver.v.img])
                      ELSE LET d == CollectChain(st, rel, it, 2,
                                       ver.v.rec.will_init,
                                       [records |-> << <<lsn, ver.v.rec>> >>,
                                        page_img |-> None])
                           IN IF ~d.ok THEN d
                              ELSE Ok([kind |-> "Redo", data |-> d.v])

GetPageAtLsnIn(st, rel, blknum, lsn) ==
    LET r == LookupPage(st, rel, blknum, lsn) IN
    IF ~r.ok THEN r
    ELSE IF r.v.kind = "Image" THEN Ok(r.v.img)
    ELSE ReconstructPage(r.v.data)

\* A size lookup that answers from the snapshot cache whatever the LSN of
\* the snapshot.
GetRelishSizeAnySnapshot(st, m, rel, lsn) ==
    IF ~IsBlocky(rel) THEN Err("InvalidRequest")
    ELSE IF m.some /\ rel \in DOMAIN m.v
         THEN Ok(Some(m.v[rel].size))
         ELSE LET r == RangeIncl(st, MetadataKey(rel, 0), MetadataKey(rel, lsn))
              IN IF r = {} THEN Ok(None)
                 ELSE LET mv == DesMetadataValue(st[MaxKey(r)]) IN
                      IF mv.ok THEN Ok(mv.v.size) ELSE mv

\* A size lookup whose scan does not stop at the request LSN.
GetRelishSizeNewestRow(st, m, rel, lsn) ==
    IF ~IsBlocky(rel) THEN Err("InvalidRequest")
    ELSE IF m.some /\ rel \in DOMAIN m.v /\ m.v[rel].lsn <= lsn
         THEN Ok(Some(m.v[rel].size))
         ELSE LET r == RangeIncl(st, MetadataKey(rel, 0), MetadataKey(rel, LsnMAX))
              IN IF r = {} THEN Ok(None)
                 ELSE LET mv == DesMetadataValue(st[MaxKey(r)]) IN
                      IF mv.ok THEN Ok(mv.v.size) ELSE mv

GetRelishSizeIn(st, m, rel, lsn) ==
    IF ~IsBlocky(rel) THEN Err("InvalidRequest")
    ELSE IF m.some /\ rel \in DOMAIN m.v /\ m.v[rel].lsn <= lsn
         THEN Ok(Some(m.v[rel].size))
         ELSE LET r == RangeIncl(st, MetadataKey(rel, 0), MetadataKey(rel, lsn))
              IN IF r = {} THEN Ok(None)
                 ELSE LET mv == DesMetadataValue(st[MaxKey(r)]) IN
                      IF mv.ok THEN Ok(mv.v.size) ELSE mv

GetRelExistsIn(st, m, rel, lsn) ==
    LET r == GetRelishSizeIn(st, m, rel, lsn) IN
    IF r.ok THEN Ok(r.v.some) ELSE r

\* ------------------------------------------------------------ list_relishes
\* The relation tags of two databases of one tablespace, by their rank in
\* the key order (tablespace, database, relation, fork): database d holds
\* the ranks FromRel(d) .. TillRel(d), FromRel(d) being its relation 0,
\* fork 0 and TillRel(d) its relation u32::MAX, fork u8::MAX.
Databases == {1, 2}
FromRel(d) == 4 * d - 3
TillRel(d) == 4 * d
RelationsOf(d) == FromRel(d) .. TillRel(d)

\* A listing that looks at the newest row of an entity only.
ListedNewestOnly(st, key, lsn) ==
    IF key[3] <= lsn
    THEN LET meta_value == DesMetadataValue(st[key]) IN
         IF meta_value.ok THEN Ok(meta_value.v.size.some) ELSE meta_value
    ELSE Ok(FALSE)

\* Whether list_relishes puts the entity of `key`, the newest Metadata row
\* of the entity, into its result: the row itself when it is at or below
\* lsn, else the newest row of the entity at or below lsn, must hold a size.
Listed(st, key, lsn) ==
    IF key[3] <= lsn
    THEN LET meta_value == DesMetadataValue(st[key]) IN
         IF meta_value.ok THEN Ok(meta_value.v.size.some) ELSE meta_value
    ELSE LET r == RangeIncl(st, MetadataKey(key[2], 0), MetadataKey(key[2], lsn))
         IN IF r = {} THEN Ok(FALSE)
            ELSE IF MaxKey(r)[1] # MetadataTag THEN Err("UnexpectedKey")
            ELSE LET meta_value == DesMetadataValue(st[MaxKey(r)]) IN
                 IF meta_value.ok THEN Ok(meta_value.v.size.some)
                 ELSE meta_value

\* The loop of list_relishes: the newest row in range(from..till), then
\* till moved to (entity, 0) to jump to the previous entity.
RECURSIVE ListLoop(_, _, _, _, _)
ListLoop(st, from, till, lsn, result) ==
    LET r == RangeExcl(st, from, till) IN
    IF r = {} THEN Ok(result)
    ELSE LET key == MaxKey(r) IN
         IF key[1] # MetadataTag THEN Err("UnexpectedKey")
         ELSE LET listed == Listed(st, key, lsn) IN
              IF ~listed.ok THEN listed
              ELSE ListLoop(st, from, MetadataKey(key[2], 0), lsn,
                            IF listed.v THEN result \cup {key[2]} ELSE result)

ListRelishes(st, from_rel, till_rel, lsn) ==
    ListLoop(st, MetadataKey(from_rel, 0), MetadataKey(till_rel, LsnMAX), lsn, {})

\* list_rels for the database d.
ListRelsIn(st, d, lsn) == ListRelishes(st, FromRel(d), TillRel(d), lsn)

\* list_nonrels: from Relation(MAX, MAX, MAX, MAX) to RelishTag::Checkpoint.
ListNonrelsIn(st, lsn) == ListRelishes(st, RelTagMax, CheckpointTag, lsn)

\* ------------------------------------------------- current logical size
\* The loops of get_current_logical_size_non_incremental: total_blocks
\* after the sizes of rels were added, or the first error of a lookup.
RECURSIVE AddSizes(_, _, _, _, _)
AddSizes(st, m, rels, lsn, total_blocks) ==
    IF rels = {} THEN Ok(total_blocks)
    ELSE LET rel == CHOOSE r \in rels : TRUE
             size == GetRelishSizeIn(st, m, rel, lsn)
         IN IF ~size.ok THEN size
            ELSE AddSizes(st, m, rels \ {rel}, lsn,
                          IF size.v.some THEN total_blocks + size.v.v
                          ELSE total_blocks)

\* all_rels is list_rels(0, 0, lsn), a scan of the keys between
\* Relation(0, 0, 0, 0) and Relation(0, 0, MAX, MAX): the database 0 of the
\* key order.  Of the non-relations only the SLRU segments are added.
GetCurrentLogicalSizeNonIncrementalIn(st, m, lsn) ==
    LET all_rels == ListRelsIn(st, 0, lsn) IN
    IF ~all_rels.ok THEN all_rels
    ELSE LET rel_blocks == AddSizes(st, m, all_rels.v, lsn, 0) IN
         IF ~rel_blocks.ok THEN rel_blocks
         ELSE LET non_rels == ListNonrelsIn(st, lsn) IN
              IF ~non_rels.ok THEN non_rels
              ELSE LET total_blocks ==
                          AddSizes(st, m, {r \in non_rels.v : IsSlru(r)},
                                   lsn, rel_blocks.v)
                   IN IF ~total_blocks.ok THEN total_blocks
                      ELSE Ok(total_blocks.v * BLCKSZ)

\* ------------------------------------------------------------ metadata cache
RECURSIVE LoadLoop(_, _, _)
LoadLoop(st, till, acc) ==
    LET r == RangeBelow(st, till) IN
    IF r = {} THEN Ok(acc)
    ELSE LET key == MaxKey(r) IN
         IF key[1] # MetadataTag THEN Err("StorageCorrupted")
         ELSE LET metadata == DesMetadataValue(SerStoreKey(key)) IN
              IF ~metadata.ok THEN metadata
              ELSE LoadLoop(st, MetadataKey(key[2], 0),
                     IF metadata.v.size.some
                     THEN MapInsert(acc, key[2],
                            [size |-> metadata.v.size.v, lsn |-> key[3]])
                     ELSE acc)

\* RelishStore::load_metadata: the cache after the call, or the error.
LoadMetadata(st, m) ==
    IF m.some THEN Ok(m.v)
    ELSE LoadLoop(st, MetadataKey(CheckpointTag, LsnMAX), EmptyMap)


\* -------------------------------------------------------------------- state
VARIABLES
    file,                 \* timeline id -> Option<TimelineMetadata> (metadata file)
    store,                \* timeline id -> rows of the timeline's KV store
    open,                 \* ids in the repository's `timelines` map
    meta,                 \* timeline id -> RelishStore.meta (Option<HashMap>)
    last_record_lsn,      \* timeline id -> RecordLsn {last, prev}
    disk_consistent_lsn,  \* timeline id -> Lsn
    ckpt,                 \* timeline id -> position of a running checkpoint_internal
    nwrites,              \* number of store-changing writer calls so far
    waiters,              \* reader thread -> position of its wait_lsn call
    ingest,               \* position of the WAL receiver in its record loop
    branch,               \* position of a running branch_timeline call
    gc,                   \* position of a running gc_iteration_internal call
    metadata_file,        \* a metadata file on disk: what was saved, its bytes
    wal_receivers,        \* WAL_RECEIVERS: the entries of the map
    threads,              \* thread id -> position of a WAL receiver thread
    open_files,           \* OPEN_FILES: None until init, then OpenFiles
    vfiles,               \* virtual file id -> Option<VirtualFile>
    vthreads,             \* thread id -> position of its VirtualFile call
    disk,                 \* path -> the file on disk that VirtualFiles use
    std_files,            \* virtual file id -> the std::fs::File beside it
    std_disk,             \* path -> the file on disk that std Files use
    results,              \* virtual file id -> results of the last operation
    nops,                 \* number of VirtualFile calls so far
    sk_mutex,             \* safekeeper Timeline.mutex: who holds it
    sk_commit_lsn,        \* SharedState.sk.inmem.commit_lsn
    notified_commit_lsn,  \* SharedState.notified_commit_lsn
    wal_senders,          \* WAL sender thread -> position of its wait_for_lsn
    active,               \* SharedState.active
    num_computes,         \* SharedState.num_computes
    pageserver_connstr,   \* SharedState.pageserver_connstr
    replicas,             \* SharedState.replicas
    page_versions,        \* PageVersions: block number -> VecMap of versions
    block_iter            \* an OrderedBlockIter and what it has returned

meta_vars == <<metadata_file>>
receiver_vars == <<wal_receivers, threads>>
vfile_vars == <<open_files, vfiles, vthreads, disk, std_files, std_disk,
                results, nops>>
sk_vars == <<sk_mutex, sk_commit_lsn, notified_commit_lsn, wal_senders>>
compute_vars == <<active, num_computes, pageserver_connstr, replicas>>
pv_vars == <<page_versions, block_iter>>
rest_vars == <<vfile_vars, sk_vars, compute_vars, pv_vars>>

\* The state outside the timelines of the repository.
other_vars == <<meta_vars, receiver_vars, rest_vars>>

\* The state of the timelines of the repository.
repo_vars == <<file, store, open, meta, last_record_lsn, disk_consistent_lsn,
               ckpt, nwrites, waiters, ingest, branch, gc>>

vars == <<repo_vars, other_vars>>

Idle == [pc |-> "idle"]

\* The WAL receiver between two records; begun are the records it has
\* taken from the decoder so far.
BetweenRecords(begun) == [pc |-> "idle", begun |-> begun]

\* A reader thread that is in no wait_lsn call and has made none yet.
NotWaiting == [pc |-> "none"]

\* A WAL receiver thread that has not been spawned.
NotSpawned == [pc |-> "none"]
ThreadIds == 1 .. MaxThreads
ConnStrs == {"host=a", "host=b"}

\* Cells of the replicas vector of a safekeeper timeline.
ReplicaIds == 0 .. 1

\* WAL sender threads of a safekeeper timeline and the LSNs in use there.
WalSenders == {"s1", "s2"}
SkLsns == {0} \cup {8 * i : i \in 1 .. MaxSkLsn}
NoWait ==
    [pc |-> "none", lsn |-> 0, seen |-> 0, expired |-> FALSE, expired_at |-> 0,
     res |-> None, at_return |-> 0]

\* Virtual files, the threads that call them, and the paths they open.
VFileIds == 1 .. 3
VThreadIds == 1 .. 2
Paths == {"a", "b"}
NoHandle == [index |-> 0, tag |-> 0]
IdleVThread ==
    [pc |-> "idle", vf |-> 0, op |-> [kind |-> "none"], handle |-> NoHandle,
     retries |-> 0, guard |-> FALSE, file |-> None]

\* Reads on an open timeline.
ListRels(t, d, lsn) == ListRelsIn(store[t], d, lsn)
GetPageAtLsn(t, rel, blknum, lsn) == GetPageAtLsnIn(store[t], rel, blknum, lsn)
GetRelishSize(t, rel, lsn) == GetRelishSizeIn(store[t], meta[t], rel, lsn)
GetCurrentLogicalSizeNonIncremental(t, lsn) ==
    GetCurrentLogicalSizeNonIncrementalIn(store[t], meta[t], lsn)
GetRelExists(t, rel, lsn) == GetRelExistsIn(store[t], meta[t], rel, lsn)
GetLastRecordLsn(t) == last_record_lsn[t].last

\* ------------------------------------------------------------ metadata file
\* The metadata file holds the serialized TimelineMetadata, zero-padded to
\* METADATA_MAX_DATA_SIZE bytes, and the CRC32C of those bytes.
METADATA_MAX_SAFE_SIZE == 512
METADATA_CHECKSUM_SIZE == 4
METADATA_MAX_DATA_SIZE == METADATA_MAX_SAFE_SIZE - METADATA_CHECKSUM_SIZE

\* Exclusive or of two bytes.
RECURSIVE XorBits(_, _)
XorBits(a, b) ==
    IF a = 0 THEN b
    ELSE IF b = 0 THEN a
    ELSE ((a + b) % 2) + 2 * XorBits(a \div 2, b \div 2)

\* A u32 is held as its four bytes, lowest first (u32::to_le_bytes).
Xor32(a, b) == <<XorBits(a[1], b[1]), XorBits(a[2], b[2]),
                 XorBits(a[3], b[3]), XorBits(a[4], b[4])>>
Shr1(c) == <<(c[1] \div 2) + 128 * (c[2] % 2),
             (c[2] \div 2) + 128 * (c[3] % 2),
             (c[3] \div 2) + 128 * (c[4] % 2), c[4] \div 2>>
Shr8(c) == <<c[2], c[3], c[4], 0>>
AllOnes == <<255, 255, 255, 255>>

\* CRC32C: the reflected Castagnoli polynomial 0x82F63B78, initial value
\* and final exclusive or 0xFFFFFFFF.
Castagnoli == <<120, 59, 246, 130>>
RECURSIVE Crc32cBits(_, _)
Crc32cBits(c, n) ==
    IF n = 0 THEN c
    ELSE Crc32cBits(IF c[1] % 2 = 1 THEN Xor32(Shr1(c), Castagnoli)
                    ELSE Shr1(c), n - 1)
Crc32cTable == [i \in 0..255 |-> Crc32cBits(<<i, 0, 0, 0>>, 8)]
\* The register after bytes[lo..hi], the bytes taken in order.
RECURSIVE Crc32cUpdate(_, _, _, _)
Crc32cUpdate(crc, bytes, lo, hi) ==
    IF lo > hi THEN crc
    ELSE IF lo = hi
    THEN Xor32(Crc32cTable[XorBits(crc[1], bytes[lo])], Shr8(crc))
    ELSE LET mid == (lo + hi) \div 2
             left == Crc32cUpdate(crc, bytes, lo, mid)
         IN IF Len(left) = 4 THEN Crc32cUpdate(left, bytes, mid + 1, hi)
            ELSE left
Crc32c(bytes) == Xor32(Crc32cUpdate(AllOnes, bytes, 1, Len(bytes)), AllOnes)

\* BeSer of a u64 below 2^31: eight bytes, highest first.
SerU64(n) == <<0, 0, 0, 0, n \div 16777216, (n \div 65536) % 256,
               (n \div 256) % 256, n % 256>>
\* The u64 of eight bytes; one that is 2^31 or more stays as its bytes.
DesU64(b) ==
    IF b[1] = 0 /\ b[2] = 0 /\ b[3] = 0 /\ b[4] = 0 /\ b[5] < 128
    THEN ((b[5] * 256 + b[6]) * 256 + b[7]) * 256 + b[8]
    ELSE [u64 |-> b]

\* A ZTimelineId is 16 bytes.
ZTimelineIdBytes(t) ==
    [k \in 1..16 |-> IF k < 16 THEN 0 ELSE IF t = "T" THEN 1 ELSE 2]
ZTimelineIdOf(b) ==
    IF \E t \in TimelineIds : ZTimelineIdBytes(t) = b
    THEN CHOOSE t \in TimelineIds : ZTimelineIdBytes(t) = b
    ELSE [zid |-> b]

\* BeSer of an Option: the tag byte and, for Some, the value.
SerOption(o, bytes) == IF o.some THEN <<1>> \o bytes ELSE <<0>>

\* TimelineMetadata::ser
SerTimelineMetadata(md) ==
    SerU64(md.disk_consistent_lsn)
    \o SerOption(md.prev_record_lsn,
                 IF md.prev_record_lsn.some THEN SerU64(md.prev_record_lsn.v)
                 ELSE <<>>)
    \o SerOption(md.ancestor_timeline,
                 IF md.ancestor_timeline.some
                 THEN ZTimelineIdBytes(md.ancestor_timeline.v) ELSE <<>>)
    \o SerU64(md.ancestor_lsn)

\* TimelineMetadata::des_prefix: the fields from the front of the bytes,
\* whatever follows them; a tag byte of an Option other than 0 and 1 is an
\* error.
DesTimelineMetadataPrefix(b) ==
    IF b[9] > 1 THEN Err("InvalidTag")
    ELSE LET p == IF b[9] = 1 THEN 18 ELSE 10 IN
         IF b[p] > 1 THEN Err("InvalidTag")
         ELSE LET q == IF b[p] = 1 THEN p + 17 ELSE p + 1 IN
              Ok([disk_consistent_lsn |-> DesU64(SubSeq(b, 1, 8)),
                  prev_record_lsn |->
                      IF b[9] = 1 THEN Some(DesU64(SubSeq(b, 10, 17)))
                      ELSE None,
                  ancestor_timeline |->
                      IF b[p] = 1
                      THEN Some(ZTimelineIdOf(SubSeq(b, p + 1, p + 16)))
                      ELSE None,
                  ancestor_lsn |-> DesU64(SubSeq(b, q, q + 7))])

\* metadata_bytes.resize(n, 0)
Resize(bytes, n) ==
    [k \in 1..n |-> IF k <= Len(bytes) THEN bytes[k] ELSE 0]

\* The bytes save_metadata writes.
MetadataBytes(md) ==
    LET data == Resize(SerTimelineMetadata(md), METADATA_MAX_DATA_SIZE) IN
    data \o Crc32c(data)

\* A panic of the calling thread.
Panic(msg) == [ok |-> FALSE, panic |-> msg]

\* load_metadata on the bytes read from the file. The alignment of
\* disk_consistent_lsn is that of its lowest byte.
LoadMetadataBytes(metadata_bytes) ==
    IF Len(metadata_bytes) # METADATA_MAX_SAFE_SIZE THEN Err("Ensure")
    ELSE LET data == SubSeq(metadata_bytes, 1, METADATA_MAX_DATA_SIZE)
             calculated_checksum == Crc32c(data)
             expected_checksum == SubSeq(metadata_bytes,
                                         METADATA_MAX_DATA_SIZE + 1,
                                         METADATA_MAX_SAFE_SIZE)
         IN IF calculated_checksum # expected_checksum THEN Err("Ensure")
            ELSE LET d == DesTimelineMetadataPrefix(data) IN
                 IF ~d.ok THEN d
                 ELSE IF ~IsAligned(data[8]) THEN Panic("assert")
                 ELSE d

\* No metadata file: data is the TimelineMetadata last saved, bytes what the
\* file holds, damage what has happened to the bytes since, loaded the
\* result of a load_metadata.
NoFile == [data |-> None, bytes |-> <<>>, damage |-> "none", loaded |-> None]

\* The highest LSN of any row of a store (0 when it is empty).
MaxStoreLsn(st) ==
    LET ls == {k[Len(k)] : k \in DOMAIN st} IN
    IF ls = {} THEN 0 ELSE CHOOSE l \in ls : \A j \in ls : j <= l

Init ==
    /\ file = [t \in TimelineIds |-> None]
    /\ store = [t \in TimelineIds |-> EmptyStore]
    /\ open = {}
    /\ meta = [t \in TimelineIds |-> None]
    /\ last_record_lsn = [t \in TimelineIds |-> [last |-> 0, prev |-> 0]]
    /\ disk_consistent_lsn = [t \in TimelineIds |-> 0]
    /\ ckpt = [t \in TimelineIds |-> Idle]
    /\ nwrites = 0
    /\ waiters = [w \in Readers |-> NotWaiting]
    /\ ingest = BetweenRecords({})
    /\ branch = Idle
    /\ gc = Idle
    /\ metadata_file = NoFile
    /\ wal_receivers = {}
    /\ threads = [id \in ThreadIds |-> NotSpawned]
    /\ open_files = None
    /\ vfiles = [vf \in VFileIds |-> None]
    /\ vthreads = [th \in VThreadIds |-> IdleVThread]
    /\ disk = [path \in Paths |-> None]
    /\ std_files = [vf \in VFileIds |-> None]
    /\ std_disk = [path \in Paths |-> None]
    /\ results = [vf \in VFileIds |-> None]
    /\ nops = 0
    /\ sk_mutex = "free"
    /\ sk_commit_lsn = 0
    /\ notified_commit_lsn = 0
    /\ wal_senders = [w \in WalSenders |-> NoWait]
    /\ active = FALSE
    /\ num_computes = 0
    /\ pageserver_connstr = None
    /\ replicas = [id \in ReplicaIds |-> None]
    /\ page_versions = <<>>
    /\ block_iter = None

\* ------------------------------------------------------ repository, registry
\* BufferedTimeline::new: the in-memory state of a timeline opened from its
\* metadata file.
NewRecordLsn(md) ==
    [last |-> md.disk_consistent_lsn,
     prev |-> IF md.prev_record_lsn.some THEN md.prev_record_lsn.v ELSE 0]

\* The timelines get_timeline_locked(t) inserts into the map: t and its
\* ancestors that are not there yet.
RECURSIVE ToLoad(_, _)
ToLoad(t, opened) ==
    IF t \in opened THEN {}
    ELSE {t} \cup (IF file[t].some /\ file[t].v.ancestor_timeline.some
                   THEN ToLoad(file[t].v.ancestor_timeline.v, opened \cup {t})
                   ELSE {})

\* load_metadata of the file succeeds (the file exists; its
\* disk_consistent_lsn is asserted to be aligned).
CanLoad(t) == file[t].some /\ IsAligned(file[t].v.disk_consistent_lsn)

OpenTimelines(ids) ==
    /\ open' = open \cup ids
    /\ meta' = [t \in TimelineIds |-> IF t \in ids THEN None ELSE meta[t]]
    /\ last_record_lsn' = [t \in TimelineIds |->
           IF t \in ids THEN NewRecordLsn(file[t].v) ELSE last_record_lsn[t]]
    /\ disk_consistent_lsn' = [t \in TimelineIds |->
           IF t \in ids THEN file[t].v.disk_consistent_lsn
           ELSE disk_consistent_lsn[t]]

\* gc_iteration_internal holds the mutex of the `timelines` map from its
\* start to its return; the other holders take it for one step.
RegistryLocked == gc.pc # "idle"

\* The metadata file of t exists: it has been written, or a running
\* branch_timeline has created it and not written it yet.
FileExists(t) ==
    file[t].some \/ (branch.pc = "write" /\ branch.dst = t)

\* The directory of t exists.
DirExists(t) ==
    FileExists(t) \/ (branch.pc = "open" /\ branch.dst = t)

CreateEmptyTimeline(t) ==
    /\ ~RegistryLocked
    /\ IF FileExists(t)
       THEN UNCHANGED <<file, open, meta, last_record_lsn, disk_consistent_lsn>>
       ELSE /\ file' = [file EXCEPT ![t] = Some(
                          [disk_consistent_lsn |-> 0, prev_record_lsn |-> None,
                           ancestor_timeline |-> None, ancestor_lsn |-> 0])]
            /\ open' = open \cup {t}
            /\ meta' = [meta EXCEPT ![t] = None]
            /\ last_record_lsn' = [last_record_lsn EXCEPT
                                     ![t] = [last |-> 0, prev |-> 0]]
            /\ disk_consistent_lsn' = [disk_consistent_lsn EXCEPT ![t] = 0]
    /\ UNCHANGED <<store, ckpt, nwrites, waiters, ingest,
                   branch, gc, other_vars>>

GetTimeline(t) ==
    /\ ~RegistryLocked
    /\ t \notin open
    /\ LET ids == ToLoad(t, open) IN
       IF \A u \in ids : CanLoad(u)
       THEN OpenTimelines(ids)
       ELSE UNCHANGED <<open, meta, last_record_lsn, disk_consistent_lsn>>
    /\ UNCHANGED <<file, store, ckpt, nwrites, waiters, ingest,
                   branch, gc, other_vars>>

BranchTimeline(src, dst, start_lsn) ==
    LET ids == ToLoad(src, open)
        src_rlsn == IF src \in open THEN last_record_lsn[src]
                    ELSE NewRecordLsn(file[src].v)
    IN
    /\ ~RegistryLocked
    /\ IF ~(\A u \in ids : CanLoad(u))
       THEN UNCHANGED <<file, open, meta, last_record_lsn, disk_consistent_lsn>>
       ELSE /\ OpenTimelines(ids)
            /\ IF FileExists(dst)
               THEN UNCHANGED file
               ELSE file' = [file EXCEPT ![dst] = Some(
                          [disk_consistent_lsn |-> start_lsn,
                           prev_record_lsn |->
                               IF src_rlsn.last = start_lsn
                               THEN Some(src_rlsn.prev) ELSE None,
                           ancestor_timeline |-> Some(src),
                           ancestor_lsn |-> start_lsn])]
    /\ UNCHANGED <<store, ckpt, nwrites, waiters, ingest,
                   branch, gc, other_vars>>

\* branch_timeline step by step, other threads in between: get_timeline(src)
\* under the mutex of the map, then with no lock held create_dir_all, and in
\* save_metadata the open with create_new, the write, and the fsyncs.
BranchBegin(src, dst, start_lsn) ==
    LET ids == ToLoad(src, open)
        src_rlsn == IF src \in open THEN last_record_lsn[src]
                    ELSE NewRecordLsn(file[src].v)
    IN
    /\ branch.pc = "idle"
    /\ ~RegistryLocked
    /\ IF ~(\A u \in ids : CanLoad(u))
       THEN UNCHANGED <<open, meta, last_record_lsn, disk_consistent_lsn, branch>>
       ELSE /\ OpenTimelines(ids)
            /\ branch' = [pc |-> "mkdir", dst |-> dst, metadata |->
                          [disk_consistent_lsn |-> start_lsn,
                           prev_record_lsn |->
                               IF src_rlsn.last = start_lsn
                               THEN Some(src_rlsn.prev) ELSE None,
                           ancestor_timeline |-> Some(src),
                           ancestor_lsn |-> start_lsn]]
    /\ UNCHANGED <<file, store, ckpt, nwrites, waiters, ingest, gc, other_vars>>

\* create_dir_all succeeds whether the directory is there or not; existed
\* records which it was.
BranchMkdir ==
    /\ branch.pc = "mkdir"
    /\ branch' = [pc |-> "open", dst |-> branch.dst,
                  metadata |-> branch.metadata,
                  existed |-> DirExists(branch.dst)]
    /\ UNCHANGED <<file, store, open, meta, last_record_lsn,
                   disk_consistent_lsn, ckpt, nwrites, waiters, ingest, gc, other_vars>>

BranchOpen ==
    /\ branch.pc = "open"
    /\ branch' = IF file[branch.dst].some THEN Idle
                 ELSE [branch EXCEPT !.pc = "write"]
    /\ UNCHANGED <<file, store, open, meta, last_record_lsn,
                   disk_consistent_lsn, ckpt, nwrites, waiters, ingest, gc, other_vars>>

BranchWrite ==
    /\ branch.pc = "write"
    /\ file' = [file EXCEPT ![branch.dst] = Some(branch.metadata)]
    /\ branch' = [branch EXCEPT !.pc = "sync"]
    /\ UNCHANGED <<store, open, meta, last_record_lsn,
                   disk_consistent_lsn, ckpt, nwrites, waiters, ingest, gc, other_vars>>

BranchSync ==
    /\ branch.pc = "sync"
    /\ branch' = Idle
    /\ UNCHANGED <<file, store, open, meta, last_record_lsn,
                   disk_consistent_lsn, ckpt, nwrites, waiters, ingest, gc, other_vars>>

\* The process stops and a new BufferedRepository is constructed over the
\* same directory: the map is empty, files and stores are as they were.
Restart ==
    /\ open # {}
    /\ open' = {}
    /\ meta' = [t \in TimelineIds |-> None]
    /\ last_record_lsn' = [t \in TimelineIds |-> [last |-> 0, prev |-> 0]]
    /\ disk_consistent_lsn' = [t \in TimelineIds |-> 0]
    /\ ckpt' = [t \in TimelineIds |-> Idle]
    /\ waiters' = [w \in Readers |-> NotWaiting]
    /\ ingest' = BetweenRecords(ingest.begun)
    /\ branch' = Idle
    /\ gc' = Idle
    /\ UNCHANGED <<file, store, nwrites, other_vars>>

\* ------------------------------------------------- metadata file on disk
\* The TimelineMetadata create_empty_timeline and branch_timeline save.
TimelineMetadatas ==
    {[disk_consistent_lsn |-> 0, prev_record_lsn |-> None,
      ancestor_timeline |-> None, ancestor_lsn |-> 0]}
    \cup {[disk_consistent_lsn |-> S, prev_record_lsn |-> prev,
           ancestor_timeline |-> Some(src), ancestor_lsn |-> S] :
             S \in BranchLsns, prev \in {None, Some(0), Some(8)},
             src \in RootIds}

\* save_metadata with first_save: the file is created and written.
SaveMetadata(data) ==
    /\ metadata_file = NoFile
    /\ metadata_file' = [NoFile EXCEPT !.data = Some(data),
                                       !.bytes = MetadataBytes(data)]
    /\ UNCHANGED <<repo_vars, receiver_vars, rest_vars>>

\* The places of the file where a byte changes (in the serialized fields,
\* in the padding, in the checksum), the values it changes to, and the
\* lengths the file is cut or grown to.
ChangedOffsets == {1, 8, 9, 18, 300, METADATA_MAX_DATA_SIZE,
                   METADATA_MAX_DATA_SIZE + 1, METADATA_MAX_SAFE_SIZE}
ByteValues == {0, 1, 8, 255}
ChangedLengths == {0, METADATA_MAX_DATA_SIZE, METADATA_MAX_SAFE_SIZE - 1,
                   METADATA_MAX_SAFE_SIZE + 1}

\* One byte of the file changes on disk.
ChangeByte(offset, value) ==
    /\ metadata_file.data.some
    /\ metadata_file.damage = "none"
    /\ ~metadata_file.loaded.some
    /\ metadata_file.bytes[offset] # value
    /\ metadata_file' = [metadata_file EXCEPT !.bytes[offset] = value,
                                              !.damage = "byte"]
    /\ UNCHANGED <<repo_vars, receiver_vars, rest_vars>>

\* The file is cut short, or zero bytes are added to it.
ChangeLength(n) ==
    /\ metadata_file.data.some
    /\ metadata_file.damage = "none"
    /\ ~metadata_file.loaded.some
    /\ metadata_file' = [metadata_file EXCEPT
                            !.bytes = Resize(metadata_file.bytes, n),
                            !.damage = "length"]
    /\ UNCHANGED <<repo_vars, receiver_vars, rest_vars>>

\* load_metadata reads the file.
LoadMetadataFile ==
    /\ metadata_file.data.some
    /\ ~metadata_file.loaded.some
    /\ metadata_file' = [metadata_file EXCEPT
                            !.loaded = Some(LoadMetadataBytes(metadata_file.bytes))]
    /\ UNCHANGED <<repo_vars, receiver_vars, rest_vars>>

\* ------------------------------------------------------------ WAL receivers
\* The entry of WAL_RECEIVERS under key, if there is one.
ReceiverEntries(receivers, key) == {e \in receivers : e.key = key}

\* HashMap::insert, HashMap::remove
MapInsertEntry(receivers, entry) ==
    (receivers \ ReceiverEntries(receivers, entry.key)) \cup {entry}
MapRemoveKey(receivers, key) == receivers \ ReceiverEntries(receivers, key)

\* A launch that spawns a thread whether or not the map has an entry.
LaunchAlwaysSpawns(receivers, key, wal_producer_connstr, thread_id) ==
    [spawn |-> TRUE,
     receivers |-> MapInsertEntry(receivers,
                      [key |-> key, thread_id |-> thread_id,
                       wal_producer_connstr |-> wal_producer_connstr])]

\* launch_wal_receiver under the lock of WAL_RECEIVERS: with an entry under
\* the key the connection string is updated, with none a thread is spawned
\* and its entry inserted.
Launch(receivers, key, wal_producer_connstr, thread_id) ==
    IF ReceiverEntries(receivers, key) # {}
    THEN [spawn |-> FALSE,
          receivers |-> {IF e.key = key
                         THEN [e EXCEPT !.wal_producer_connstr =
                                           wal_producer_connstr]
                         ELSE e : e \in receivers}]
    ELSE [spawn |-> TRUE,
          receivers |-> MapInsertEntry(receivers,
                           [key |-> key, thread_id |-> thread_id,
                            wal_producer_connstr |-> wal_producer_connstr])]

\* The id thread_mgr::spawn gives the next thread.
NextThreadId == Cardinality({id \in ThreadIds : threads[id].pc # "none"}) + 1

LaunchWalReceiver(key, wal_producer_connstr) ==
    LET l == Launch(wal_receivers, key, wal_producer_connstr, NextThreadId) IN
    /\ l.spawn => NextThreadId \in ThreadIds
    /\ wal_receivers' = l.receivers
    /\ threads' = IF l.spawn
                  THEN [threads EXCEPT ![NextThreadId] =
                           [pc |-> "spawned", key |-> key]]
                  ELSE threads
    /\ UNCHANGED <<repo_vars, meta_vars, rest_vars>>

\* thread_main looks its entry up: with one it goes on to stream WAL from
\* the connection string, with none it returns.
ThreadLookup(id) ==
    /\ threads[id].pc = "spawned"
    /\ threads' = [threads EXCEPT ![id].pc =
                      IF ReceiverEntries(wal_receivers, threads[id].key) # {}
                      THEN "streaming" ELSE "exited"]
    /\ UNCHANGED <<repo_vars, meta_vars, rest_vars, wal_receivers>>

\* walreceiver_main returns, with an error or at the end of the stream.
ThreadStreamEnds(id) ==
    /\ threads[id].pc = "streaming"
    /\ threads' = [threads EXCEPT ![id].pc = "returned"]
    /\ UNCHANGED <<repo_vars, meta_vars, rest_vars, wal_receivers>>

\* walreceiver_main panics: the thread ends without drop_wal_receiver.
ThreadPanics(id) ==
    /\ threads[id].pc = "streaming"
    /\ threads' = [threads EXCEPT ![id].pc = "panicked"]
    /\ UNCHANGED <<repo_vars, meta_vars, rest_vars, wal_receivers>>

\* drop_wal_receiver at the end of thread_main.
ThreadDrops(id) ==
    /\ threads[id].pc = "returned"
    /\ wal_receivers' = MapRemoveKey(wal_receivers, threads[id].key)
    /\ threads' = [threads EXCEPT ![id].pc = "exited"]
    /\ UNCHANGED <<repo_vars, meta_vars, rest_vars>>

\* ------------------------------------------------------------ virtual files
\* The largest u64 and the largest i64 in words of OffsetBits bits.
U64_MAX == 2^OffsetBits - 1
I64_MAX == 2^(OffsetBits - 1) - 1

\* OpenOptions of VirtualFile::open, of VirtualFile::create, and of a file
\* opened for reading and writing.
OpenRead ==
    [read |-> TRUE, write |-> FALSE, create |-> FALSE, truncate |-> FALSE]
OpenCreate ==
    [read |-> FALSE, write |-> TRUE, create |-> TRUE, truncate |-> TRUE]
OpenReadWrite ==
    [read |-> TRUE, write |-> TRUE, create |-> FALSE, truncate |-> FALSE]
OpenOptionsSet == {OpenRead, OpenCreate, OpenReadWrite}

\* The options a VirtualFile keeps to re-open its file.
ReopenOptions(open_options) ==
    [open_options EXCEPT !.create = FALSE, !.truncate = FALSE]

\* OpenOptions::open on the files d of a disk.
OsOpen(d, path, open_options) ==
    IF d[path] = None /\ ~open_options.create
    THEN [res |-> Err("NotFound"), disk |-> d]
    ELSE [res |-> Ok([path |-> path, open_options |-> open_options]),
          disk |-> IF d[path] = None \/ open_options.truncate
                   THEN [d EXCEPT ![path] = Some(<<>>)]
                   ELSE d]

\* FileExt::read_at of a File: pread at an offset cast to i64.
FileReadAt(d, f, len, offset) ==
    IF offset > I64_MAX THEN Err("InvalidInput")
    ELSE IF ~f.open_options.read THEN Err("Uncategorized")
    ELSE LET bytes == d[f.path].v
             last == IF offset + len < Len(bytes) THEN offset + len
                     ELSE Len(bytes)
         IN Ok(SubSeq(bytes, offset + 1, last))

\* FileExt::write_at of a File: pwrite at an offset cast to i64; a write past
\* the end of the file leaves a hole of zeroes.
FileWriteAt(d, f, buf, offset) ==
    IF offset > I64_MAX THEN [res |-> Err("InvalidInput"), disk |-> d]
    ELSE IF ~f.open_options.write
    THEN [res |-> Err("Uncategorized"), disk |-> d]
    ELSE LET bytes == d[f.path].v
             end == IF offset + Len(buf) > Len(bytes) THEN offset + Len(buf)
                    ELSE Len(bytes)
             written == [i \in 1 .. end |->
                            IF i > offset /\ i <= offset + Len(buf)
                            THEN buf[i - offset]
                            ELSE IF i <= Len(bytes) THEN bytes[i] ELSE 0]
         IN [res |-> Ok(Len(buf)), disk |-> [d EXCEPT ![f.path] = Some(written)]]

\* Seek::seek of a File whose position is pos: lseek with an offset cast to
\* i64, which fails when the position asked for is not one of an i64.
FileSeek(d, f, pos, whence, offset) ==
    IF whence = "Start" /\ offset > I64_MAX THEN Err("InvalidInput")
    ELSE LET from == CASE whence = "Start" -> 0
                       [] whence = "Current" -> pos
                       [] whence = "End" -> Len(d[f.path].v)
         IN IF from + offset < 0 \/ from + offset > I64_MAX
            THEN Err("InvalidInput")
            ELSE Ok(from + offset)

\* A call of a std::fs::File std = [file, pos] on the disk d: its result,
\* the disk and the position of the File after it.
StdCall(d, std, op) ==
    CASE op.kind = "read" ->
           LET r == FileReadAt(d, std.file, op.len, std.pos) IN
           [res |-> r, disk |-> d,
            pos |-> IF r.ok THEN std.pos + Len(r.v) ELSE std.pos]
      [] op.kind = "write" ->
           LET w == FileWriteAt(d, std.file, op.buf, std.pos) IN
           [res |-> w.res, disk |-> w.disk,
            pos |-> IF w.res.ok THEN std.pos + w.res.v ELSE std.pos]
      [] op.kind = "read_at" ->
           [res |-> FileReadAt(d, std.file, op.len, op.offset), disk |-> d,
            pos |-> std.pos]
      [] op.kind = "write_at" ->
           LET w == FileWriteAt(d, std.file, op.buf, op.offset) IN
           [res |-> w.res, disk |-> w.disk, pos |-> std.pos]
      [] op.kind = "seek" ->
           LET r == FileSeek(d, std.file, std.pos, op.whence, op.offset) IN
           [res |-> r, disk |-> d, pos |-> IF r.ok THEN r.v ELSE std.pos]

\* The closure a call of a VirtualFile at position pos hands to with_file,
\* applied to the physical File f.
Func(d, f, pos, op) ==
    CASE op.kind = "read" ->
           [res |-> FileReadAt(d, f, op.len, pos), disk |-> d]
      [] op.kind = "write" -> FileWriteAt(d, f, op.buf, pos)
      [] op.kind = "read_at" ->
           [res |-> FileReadAt(d, f, op.len, op.offset), disk |-> d]
      [] op.kind = "write_at" -> FileWriteAt(d, f, op.buf, op.offset)
      [] op.kind = "seek" ->
           [res |-> FileSeek(d, f, 0, "End", op.offset), disk |-> d]

\* The position of the VirtualFile after with_file has returned res.
PosAfter(pos, op, res) ==
    CASE op.kind = "read" -> IF res.ok THEN pos + Len(res.v) ELSE pos
      [] op.kind = "write" -> IF res.ok THEN pos + res.v ELSE pos
      [] op.kind = "seek" -> IF res.ok THEN res.v ELSE pos
      [] OTHER -> pos

\* A seek that moves to the nearest position there is when it fails.
VirtualSeekClamped(pos, whence, offset) ==
    IF whence = "Start" THEN [res |-> Ok(offset), pos |-> offset]
    ELSE IF pos + offset < 0 THEN [res |-> Err("InvalidInput"), pos |-> 0]
    ELSE IF pos + offset > U64_MAX
    THEN [res |-> Err("InvalidInput"), pos |-> U64_MAX]
    ELSE [res |-> Ok(pos + offset), pos |-> pos + offset]

\* Seek::seek of a VirtualFile from the start and from the current position.
VirtualSeek(pos, whence, offset) ==
    IF whence = "Start" THEN [res |-> Ok(offset), pos |-> offset]
    ELSE IF pos + offset < 0 THEN [res |-> Err("InvalidInput"), pos |-> pos]
    ELSE IF pos + offset > U64_MAX
    THEN [res |-> Err("InvalidInput"), pos |-> pos]
    ELSE [res |-> Ok(pos + offset), pos |-> pos + offset]

\* OpenFiles::new
NewSlot ==
    [tag |-> 0, file |-> None, recently_used |-> FALSE,
     writer |-> 0, readers |-> {}]
NewOpenFiles(num_slots) ==
    [slots |-> [i \in 0 .. num_slots - 1 |-> NewSlot], next |-> 0]

NumSlots == Cardinality(DOMAIN open_files.v.slots)

\* A try_write that takes the lock whoever holds it.
TryWriteUnlocked(slot) == TRUE

\* A slot that is taken without a new tag.
TakeSlotSameTag(slot, th) ==
    [slot EXCEPT !.file = None, !.recently_used = TRUE, !.writer = th]

\* RwLock::try_write succeeds when no thread holds the lock.
TryWrite(slot) == slot.writer = 0 /\ slot.readers = {}

\* The end of find_victim_slot in thread th: the file of the slot is closed
\* and the slot is made ready for reuse.
TakeSlot(slot, th) ==
    [slot EXCEPT !.file = None, !.tag = @ + 1, !.recently_used = TRUE,
                 !.writer = th]

\* The threads inside a call of the virtual file vf.
Busy(vf) == {th \in VThreadIds : vthreads[th].vf = vf}

\* The calls of a VirtualFile that go through with_file.
ReadLens == {1, 2}
Bufs == {<<1>>, <<2>>}
Offsets == {0, 1, I64_MAX + 1}
Calls ==
    [kind : {"read"}, len : ReadLens] \cup [kind : {"write"}, buf : Bufs]
    \cup [kind : {"read_at"}, len : ReadLens, offset : Offsets]
    \cup [kind : {"write_at"}, buf : Bufs, offset : Offsets]
    \cup [kind : {"seek"}, whence : {"End"}, offset : {-1, 0, I64_MAX}]

\* The seeks of a VirtualFile that do not.
Seeks ==
    [kind : {"seek"}, whence : {"Start"}, offset : {0, 1, I64_MAX + 1, U64_MAX}]
    \cup [kind : {"seek"}, whence : {"Current"},
          offset : {-1, 1, I64_MAX, 0 - I64_MAX - 1}]

\* Calls that take the VirtualFile by mutable reference.
Exclusive(op) == op.kind \in {"read", "write", "seek"}

\* A write that keeps the file within MaxFileLen bytes, or fails.
WithinFile(op, pos) ==
    LET offset == IF op.kind = "write" THEN pos ELSE op.offset IN
    op.kind \in {"write", "write_at"} =>
        offset + Len(op.buf) <= MaxFileLen \/ offset > I64_MAX

not_vfile_vars == <<repo_vars, meta_vars, receiver_vars, sk_vars,
                    compute_vars, pv_vars>>

\* virtual_file::init; a second call panics.
VirtualFileInit(num_slots) ==
    /\ open_files = None
    /\ open_files' = Some(NewOpenFiles(num_slots))
    /\ UNCHANGED <<vfiles, vthreads, disk, std_files, std_disk, results, nops>>
    /\ UNCHANGED not_vfile_vars

\* The thread leaves its call.
Leave(th) == vthreads' = [vthreads EXCEPT ![th] = IdleVThread]

\* The locks of the handle of vf and of the slot index that thread th lets go
\* when it returns or unwinds.
Unlocked(slot, th) ==
    [slot EXCEPT !.writer = IF @ = th THEN 0 ELSE @, !.readers = @ \ {th}]
HandleUnlocked(v, th) == [v EXCEPT !.writer = IF @ = th THEN 0 ELSE @]

\* VirtualFile::open_with_options begins in thread th: find_victim_slot is
\* next.  vf names the VirtualFile it will return.
OpenWithOptions(th, vf, path, open_options) ==
    /\ open_files # None
    /\ vthreads[th].pc = "idle"
    /\ vfiles[vf] = None /\ Busy(vf) = {}
    /\ nops' = nops + 1
    /\ vthreads' = [vthreads EXCEPT ![th] =
          [IdleVThread EXCEPT !.pc = "sweep", !.vf = vf,
              !.op = [kind |-> "open", path |-> path,
                      open_options |-> open_options]]]
    /\ UNCHANGED <<open_files, vfiles, disk, std_files, std_disk, results>>
    /\ UNCHANGED not_vfile_vars

\* with_file begins in thread th for a call op of the virtual file vf: it
\* reads the cached handle under the read lock of the handle.
WithFileBegin(th, vf, op) ==
    /\ vthreads[th].pc = "idle"
    /\ vfiles[vf] # None
    /\ ~vfiles[vf].v.poisoned /\ vfiles[vf].v.writer = 0
    /\ \A other \in Busy(vf) :
          ~Exclusive(op) /\ ~Exclusive(vthreads[other].op)
    /\ WithinFile(op, vfiles[vf].v.pos)
    /\ nops' = nops + 1
    /\ vthreads' = [vthreads EXCEPT ![th] =
          [IdleVThread EXCEPT !.pc = "slot", !.vf = vf, !.op = op,
                              !.handle = vfiles[vf].v.handle]]
    /\ UNCHANGED <<open_files, vfiles, disk, std_files, std_disk, results>>
    /\ UNCHANGED not_vfile_vars

\* with_file calls func with the physical File f and returns; slots and
\* handle are the slots and the handle of the virtual file as it leaves them.
\* The same call is made of the std File beside the virtual file.
Return(th, f, slots, handle) ==
    LET vf == vthreads[th].vf
        op == vthreads[th].op
        v == vfiles[vf].v
        r == Func(disk, f, v.pos, op)
        s == StdCall(std_disk, std_files[vf].v, op)
    IN /\ open_files' = Some([open_files.v EXCEPT !.slots = slots])
       /\ vfiles' = [vfiles EXCEPT ![vf] =
             Some([HandleUnlocked(v, th) EXCEPT
                      !.handle = handle, !.pos = PosAfter(v.pos, op, r.res)])]
       /\ disk' = r.disk
       /\ std_disk' = s.disk
       /\ std_files' = [std_files EXCEPT ![vf] =
             Some([std_files[vf].v EXCEPT !.pos = s.pos])]
       /\ results' = [results EXCEPT ![vf] =
             Some([call |-> op.kind, virtual |-> r.res, std |-> s.res])]
       /\ Leave(th)
       /\ UNCHANGED nops

\* The head of the loop of with_file: under the read lock of the slot the
\* handle points to, a File whose tag matches is used.  Else the write lock
\* of the handle is taken next; a thread that holds it from the iteration
\* before locks against itself, which blocks for ever or panics.
WithFileSlot(th) ==
    LET t == vthreads[th]
        slots == open_files.v.slots
        slot == slots[t.handle.index]
        v == vfiles[t.vf].v
    IN
    /\ t.pc = "slot"
    /\ slot.writer = 0
    /\ IF slot.tag = t.handle.tag /\ slot.file # None
       THEN /\ Return(th, slot.file.v,
                 [slots EXCEPT ![t.handle.index].recently_used = TRUE],
                 v.handle)
            /\ UNCHANGED not_vfile_vars
       ELSE IF t.guard
       THEN /\ \/ /\ vthreads' = [vthreads EXCEPT ![th].pc = "deadlocked"]
                  /\ open_files' = Some([open_files.v EXCEPT
                        !.slots[t.handle.index].readers = @ \cup {th}])
                  /\ UNCHANGED vfiles
               \/ /\ vthreads' = [vthreads EXCEPT ![th] =
                        [IdleVThread EXCEPT !.pc = "panicked"]]
                  /\ vfiles' = [vfiles EXCEPT ![t.vf] =
                        Some([HandleUnlocked(v, th) EXCEPT !.poisoned = TRUE])]
                  /\ UNCHANGED open_files
            /\ UNCHANGED <<disk, std_files, std_disk, results, nops>>
            /\ UNCHANGED not_vfile_vars
       ELSE /\ vthreads' = [vthreads EXCEPT ![th].pc = "handle"]
            /\ open_files' = Some([open_files.v EXCEPT
                  !.slots[t.handle.index].readers = @ \cup {th}])
            /\ UNCHANGED <<vfiles, disk, std_files, std_disk, results, nops>>
            /\ UNCHANGED not_vfile_vars

\* with_file takes the write lock of the handle, still holding the read lock
\* of the slot, and looks whether another thread has opened the file since.
WithFileHandle(th) ==
    LET t == vthreads[th]
        v == vfiles[t.vf].v
        released == Some([open_files.v EXCEPT
                       !.slots[t.handle.index].readers = @ \ {th}])
    IN
    /\ t.pc = "handle"
    /\ v.writer = 0
    /\ open_files' = released
    /\ IF v.poisoned
       THEN /\ vthreads' = [vthreads EXCEPT ![th] =
                  [IdleVThread EXCEPT !.pc = "panicked"]]
            /\ UNCHANGED vfiles
       ELSE /\ vfiles' = [vfiles EXCEPT ![t.vf] = Some([v EXCEPT !.writer = th])]
            /\ vthreads' = [vthreads EXCEPT ![th] =
                  IF v.handle # t.handle
                  THEN [t EXCEPT !.pc = "slot", !.handle = v.handle,
                                 !.guard = TRUE]
                  ELSE [t EXCEPT !.pc = "sweep", !.guard = TRUE]]
    /\ UNCHANGED <<disk, std_files, std_disk, results, nops>>
    /\ UNCHANGED not_vfile_vars

\* One turn of the clock sweep of find_victim_slot.
FindVictimSlot(th) ==
    LET t == vthreads[th]
        of == open_files.v
        next == of.next
        slot == of.slots[next]
        swept == [of EXCEPT !.next = (next + 1) % NumSlots]
    IN
    /\ t.pc = "sweep"
    /\ IF t.retries < NumSlots * 2
       THEN IF ~slot.recently_used /\ TryWrite(slot)
            THEN /\ open_files' = Some([swept EXCEPT
                       !.slots[next] = TakeSlot(slot, th)])
                 /\ vthreads' = [vthreads EXCEPT ![th] =
                       [t EXCEPT !.pc = "open",
                          !.handle = [index |-> next,
                                      tag |-> TakeSlot(slot, th).tag]]]
            ELSE /\ open_files' = Some([swept EXCEPT
                       !.slots[next].recently_used = FALSE])
                 /\ vthreads' = [vthreads EXCEPT ![th].retries = @ + 1]
       ELSE /\ open_files' = Some(swept)
            /\ vthreads' = [vthreads EXCEPT ![th] =
                  [t EXCEPT !.pc = "wait", !.handle = [index |-> next, tag |-> 0]]]
    /\ UNCHANGED <<vfiles, disk, std_files, std_disk, results, nops>>
    /\ UNCHANGED not_vfile_vars

\* find_victim_slot after two rounds without a victim: it waits for the
\* write lock of the next slot.
FindVictimSlotWait(th) ==
    LET t == vthreads[th]
        slot == open_files.v.slots[t.handle.index]
    IN
    /\ t.pc = "wait"
    /\ TryWrite(slot)
    /\ open_files' = Some([open_files.v EXCEPT
          !.slots[t.handle.index] = TakeSlot(slot, th)])
    /\ vthreads' = [vthreads EXCEPT ![th] =
          [t EXCEPT !.pc = "open", !.handle.tag = TakeSlot(slot, th).tag]]
    /\ UNCHANGED <<vfiles, disk, std_files, std_disk, results, nops>>
    /\ UNCHANGED not_vfile_vars

\* The physical file is opened, in open_with_options with the options of the
\* caller and in with_file with the options the VirtualFile has kept.  On an
\* error the call returns it.
OpenPhysical(th) ==
    LET t == vthreads[th]
        first == t.op.kind = "open"
        path == IF first THEN t.op.path ELSE vfiles[t.vf].v.path
        open_options == IF first THEN t.op.open_options
                        ELSE vfiles[t.vf].v.open_options
        o == OsOpen(disk, path, open_options)
        std == IF first THEN OsOpen(std_disk, path, open_options)
               ELSE StdCall(std_disk, std_files[t.vf].v, t.op)
        unlocked == Some([open_files.v EXCEPT
                       !.slots[t.handle.index] = Unlocked(@, th)])
    IN
    /\ t.pc = "open"
    /\ disk' = o.disk
    /\ IF o.res.ok
       THEN /\ vthreads' = [vthreads EXCEPT ![th].file = Some(o.res.v),
                                            ![th].pc = "store"]
            /\ UNCHANGED <<open_files, vfiles, results>>
            /\ IF first
               THEN /\ std_disk' = std.disk
                    /\ std_files' = [std_files EXCEPT ![t.vf] =
                          IF std.res.ok
                          THEN Some([file |-> std.res.v, pos |-> 0])
                          ELSE None]
               ELSE UNCHANGED <<std_files, std_disk>>
       ELSE /\ Leave(th)
            /\ open_files' = unlocked
            /\ results' = [results EXCEPT ![t.vf] =
                  Some([call |-> t.op.kind, virtual |-> Err(o.res.err),
                        std |-> IF std.res.ok THEN Ok("done") ELSE std.res])]
            /\ std_disk' = std.disk
            /\ IF first
               THEN /\ std_files' = [std_files EXCEPT ![t.vf] =
                          IF std.res.ok
                          THEN Some([file |-> std.res.v, pos |-> 0])
                          ELSE None]
                    /\ UNCHANGED vfiles
               ELSE /\ std_files' = [std_files EXCEPT ![t.vf] =
                          Some([std_files[t.vf].v EXCEPT !.pos = std.pos])]
                    /\ vfiles' = [vfiles EXCEPT ![t.vf] =
                          Some(HandleUnlocked(vfiles[t.vf].v, th))]
    /\ UNCHANGED nops
    /\ UNCHANGED not_vfile_vars

\* The File just opened is stored in the slot: open_with_options returns the
\* VirtualFile, with_file calls func first and updates the handle.
StoreFile(th) ==
    LET t == vthreads[th]
        stored == [open_files.v.slots EXCEPT ![t.handle.index] =
                      [Unlocked(@, th) EXCEPT !.file = t.file]]
    IN
    /\ t.pc = "store"
    /\ IF t.op.kind = "open"
       THEN /\ open_files' = Some([open_files.v EXCEPT !.slots = stored])
            /\ vfiles' = [vfiles EXCEPT ![t.vf] =
                  Some([handle |-> t.handle, pos |-> 0, path |-> t.op.path,
                        open_options |-> ReopenOptions(t.op.open_options),
                        writer |-> 0, poisoned |-> FALSE])]
            /\ results' = [results EXCEPT ![t.vf] =
                  Some([call |-> "open", virtual |-> Ok("done"),
                        std |-> Ok("done")])]
            /\ Leave(th)
            /\ UNCHANGED <<disk, std_files, std_disk, nops>>
       ELSE Return(th, t.file.v, stored, t.handle)
    /\ UNCHANGED not_vfile_vars

\* Seek::seek from the start or from the current position, beside the same
\* seek of the std File.
SeekVirtualFile(vf, op) ==
    LET v == vfiles[vf].v
        r == VirtualSeek(v.pos, op.whence, op.offset)
        s == StdCall(std_disk, std_files[vf].v, op)
    IN
    /\ vfiles[vf] # None
    /\ Busy(vf) = {}
    /\ nops' = nops + 1
    /\ vfiles' = [vfiles EXCEPT ![vf] = Some([v EXCEPT !.pos = r.pos])]
    /\ std_files' = [std_files EXCEPT ![vf] =
          Some([std_files[vf].v EXCEPT !.pos = s.pos])]
    /\ results' = [results EXCEPT ![vf] =
          Some([call |-> "seek", virtual |-> r.res, std |-> s.res])]
    /\ UNCHANGED <<open_files, vthreads, disk, std_disk>>
    /\ UNCHANGED not_vfile_vars

\* Drop of a VirtualFile: under the write lock of its slot the file is
\* closed if the slot still holds it.
DropVirtualFile(vf) ==
    LET v == vfiles[vf].v
        slot == open_files.v.slots[v.handle.index]
    IN
    /\ vfiles[vf] # None
    /\ Busy(vf) = {}
    /\ IF v.poisoned
       THEN UNCHANGED open_files
       ELSE /\ slot.writer = 0 /\ slot.readers = {}
            /\ open_files' =
                  IF slot.tag = v.handle.tag
                  THEN Some([open_files.v EXCEPT
                          !.slots[v.handle.index].recently_used = FALSE,
                          !.slots[v.handle.index].file = None])
                  ELSE open_files
    /\ vfiles' = [vfiles EXCEPT ![vf] = None]
    /\ std_files' = [std_files EXCEPT ![vf] = None]
    /\ results' = [results EXCEPT ![vf] = None]
    /\ UNCHANGED <<vthreads, disk, std_disk, nops>>
    /\ UNCHANGED not_vfile_vars

\* ------------------------------------------------- safekeeper activation
not_compute_vars == <<repo_vars, meta_vars, receiver_vars, vfile_vars, pv_vars>>

\* Lsn::MAX, above every LSN in use.
LsnMax == 8 * MaxSkLsn + 8
PageserverConnstrs == {None, Some("ps1"), Some("ps2")}
ReplicaStates == [last_received_lsn : SkLsns \cup {LsnMax}]

\* The fields of SharedState that activation is about.
Activation == [active |-> active, num_computes |-> num_computes,
               pageserver_connstr |-> pageserver_connstr]

\* SharedState::activate, SharedState::deactivate
Activate(ss, connstr) ==
    [ss EXCEPT !.pageserver_connstr = connstr, !.active = TRUE]
Deactivate(ss) == [ss EXCEPT !.active = FALSE]

\* A disconnect that suspends the timeline as soon as it has no pageserver.
OnDisconnectNoCount(ss) ==
    LET left == [ss EXCEPT !.num_computes = @ - 1] IN
    IF left.pageserver_connstr = None THEN Deactivate(left) ELSE left

\* Timeline::on_compute_connect, on_compute_disconnect under the mutex.
OnConnect(ss, connstr) ==
    Activate([ss EXCEPT !.num_computes = @ + 1], connstr)
OnDisconnect(ss) ==
    LET left == [ss EXCEPT !.num_computes = @ - 1] IN
    IF left.num_computes = 0 /\ left.pageserver_connstr = None
    THEN Deactivate(left) ELSE left

\* Timeline::check_deactivate under the mutex, for the state of the replica.
CheckDeactivateIn(ss, replica_state, notified, commit_lsn) ==
    IF ~ss.active THEN [ss |-> ss, res |-> TRUE]
    ELSE IF ss.num_computes = 0
            /\ (notified = 0
                \/ (replica_state.last_received_lsn # LsnMax
                    /\ replica_state.last_received_lsn >= commit_lsn))
    THEN [ss |-> Deactivate(ss), res |-> TRUE]
    ELSE [ss |-> ss, res |-> FALSE]

SetActivation(ss) ==
    /\ active' = ss.active
    /\ num_computes' = ss.num_computes
    /\ pageserver_connstr' = ss.pageserver_connstr

\* A compute connects.
OnComputeConnect(connstr) ==
    /\ sk_mutex = "free"
    /\ num_computes < MaxComputes
    /\ SetActivation(OnConnect(Activation, connstr))
    /\ UNCHANGED <<replicas, sk_vars, not_compute_vars>>

\* A compute that has connected disconnects.
OnComputeDisconnect ==
    /\ sk_mutex = "free"
    /\ num_computes > 0
    /\ SetActivation(OnDisconnect(Activation))
    /\ UNCHANGED <<replicas, sk_vars, not_compute_vars>>

\* A WAL sender asks whether the timeline can be suspended; the unwrap of
\* the replica cell panics on an empty one.
CheckDeactivate(replica_id) ==
    /\ sk_mutex = "free"
    /\ ~active \/ num_computes # 0 \/ replicas[replica_id] # None
    /\ SetActivation(CheckDeactivateIn(Activation,
          IF replicas[replica_id] # None THEN replicas[replica_id].v
          ELSE [last_received_lsn |-> LsnMax],
          notified_commit_lsn, sk_commit_lsn).ss)
    /\ UNCHANGED <<replicas, sk_vars, not_compute_vars>>

\* add_replica and update_replica_state, remove_replica
UpdateReplicaState(id, state) ==
    /\ sk_mutex = "free"
    /\ replicas' = [replicas EXCEPT ![id] = Some(state)]
    /\ UNCHANGED <<active, num_computes, pageserver_connstr, sk_vars,
                   not_compute_vars>>
RemoveReplica(id) ==
    /\ sk_mutex = "free"
    /\ replicas[id] # None
    /\ replicas' = [replicas EXCEPT ![id] = None]
    /\ UNCHANGED <<active, num_computes, pageserver_connstr, sk_vars,
                   not_compute_vars>>

\* ------------------------------------------------------------ PageVersions
not_pv_vars == <<repo_vars, meta_vars, receiver_vars, vfile_vars, sk_vars,
                 compute_vars>>

\* VecMap::append_or_update_last: a key above the last one is appended, the
\* last key gets the new value, a key below the last one is an error.
VecMapAppendOrUpdateLast(vec_map, lsn, page_version) ==
    IF vec_map = <<>> \/ vec_map[Len(vec_map)][1] < lsn
    THEN Ok(Append(vec_map, <<lsn, page_version>>))
    ELSE IF vec_map[Len(vec_map)][1] = lsn
    THEN Ok([vec_map EXCEPT ![Len(vec_map)] = <<lsn, page_version>>])
    ELSE Err("InvalidKey")

\* The keys of the map in descending order.
SortDescending(keys) ==
    LET RECURSIVE Desc(_)
        Desc(S) == IF S = {} THEN <<>>
                   ELSE LET top == CHOOSE x \in S : \A y \in S : y <= x
                        IN <<top>> \o Desc(S \ {top})
    IN Desc(keys)

\* sort_unstable of the keys of the map: whatever order the HashMap gives
\* them in, they come out ascending.
SortUnstable(keys) ==
    LET RECURSIVE Asc(_)
        Asc(S) == IF S = {} THEN <<>>
                  ELSE LET low == CHOOSE x \in S : \A y \in S : x <= y
                       IN <<low>> \o Asc(S \ {low})
    IN Asc(keys)

\* PageVersions::append_or_update_last; the unwrap panics on an LSN below
\* the last one of the block.  No iterator borrows the map meanwhile.
AppendOrUpdateLast(blknum, lsn, page_version) ==
    LET map == IF blknum \in DOMAIN page_versions THEN page_versions[blknum]
               ELSE <<>>
        r == VecMapAppendOrUpdateLast(map, lsn, page_version)
    IN
    /\ block_iter = None
    /\ r.ok
    /\ page_versions' =
          [b \in DOMAIN page_versions \cup {blknum} |->
              IF b = blknum THEN r.v ELSE page_versions[b]]
    /\ UNCHANGED <<block_iter>>
    /\ UNCHANGED <<not_pv_vars>>

\* PageVersions::ordered_block_iter
OrderedBlockIter ==
    /\ block_iter = None
    /\ block_iter' = Some([ordered_blocks |-> SortUnstable(DOMAIN page_versions),
                           cur_block_idx |-> 0,
                           returned |-> <<>>])
    /\ UNCHANGED <<page_versions>>
    /\ UNCHANGED <<not_pv_vars>>

\* OrderedBlockIter::next; returned keeps what the calls have returned.
IterNext ==
    LET it == block_iter.v IN
    /\ block_iter # None
    /\ Len(it.returned) < MaxPvBlk + 3
    /\ block_iter' =
          IF it.cur_block_idx >= Len(it.ordered_blocks)
          THEN Some([it EXCEPT !.returned = Append(@, None)])
          ELSE LET blknum == it.ordered_blocks[it.cur_block_idx + 1] IN
               Some([it EXCEPT !.cur_block_idx = @ + 1,
                       !.returned = Append(@,
                          Some(<<blknum, page_versions[blknum]>>))])
    /\ UNCHANGED <<page_versions>>
    /\ UNCHANGED <<not_pv_vars>>

\* The iterator is dropped.
IterDrop ==
    /\ block_iter # None
    /\ block_iter' = None
    /\ UNCHANGED <<page_versions>>
    /\ UNCHANGED <<not_pv_vars>>

\* ------------------------------------------------- safekeeper wait_for_lsn
not_sk_vars == <<repo_vars, meta_vars, receiver_vars, vfile_vars,
                 compute_vars, pv_vars>>

\* A wait loop that returns once the commit LSN has reached the LSN.
WaitLoopAtLeast(w, commit_lsn) ==
    IF commit_lsn >= w.lsn
    THEN [w EXCEPT !.pc = "returned", !.seen = commit_lsn,
                   !.res = Some(commit_lsn), !.at_return = commit_lsn]
    ELSE [w EXCEPT !.pc = "waiting", !.seen = commit_lsn]

\* The head of the loop of wait_for_lsn under the mutex: a notified commit
\* LSN above the LSN is returned, else the thread waits on the condition
\* variable, which lets go of the mutex.
WaitLoop(w, commit_lsn) ==
    IF commit_lsn > w.lsn
    THEN [w EXCEPT !.pc = "returned", !.seen = commit_lsn,
                   !.res = Some(commit_lsn), !.at_return = commit_lsn]
    ELSE [w EXCEPT !.pc = "waiting", !.seen = commit_lsn]

\* wait_for_lsn is called in a WAL sender thread and takes the mutex.
WaitForLsn(w, lsn) ==
    /\ wal_senders[w].pc \in {"none", "returned"}
    /\ sk_mutex = "free"
    /\ wal_senders' = [wal_senders EXCEPT ![w] =
          WaitLoop([NoWait EXCEPT !.lsn = lsn], notified_commit_lsn)]
    /\ UNCHANGED <<sk_mutex, sk_commit_lsn, notified_commit_lsn>>
    /\ UNCHANGED not_sk_vars

\* POLL_STATE_TIMEOUT passes for a thread that waits on the condition
\* variable, whoever holds the mutex.
PollTimeout(w) ==
    /\ wal_senders[w].pc = "waiting"
    /\ wal_senders' = [wal_senders EXCEPT ![w].pc = "timed_out",
          ![w].expired = TRUE, ![w].expired_at = notified_commit_lsn]
    /\ UNCHANGED <<sk_mutex, sk_commit_lsn, notified_commit_lsn>>
    /\ UNCHANGED not_sk_vars

\* A thread that waits on the condition variable wakes without a notify.
SpuriousWakeup(w) ==
    /\ wal_senders[w].pc = "waiting"
    /\ wal_senders' = [wal_senders EXCEPT ![w].pc = "notified"]
    /\ UNCHANGED <<sk_mutex, sk_commit_lsn, notified_commit_lsn>>
    /\ UNCHANGED not_sk_vars

\* wait_timeout returns with the mutex: after a timeout wait_for_lsn
\* returns None, else it goes round the loop.
WaitTimeoutReturns(w) ==
    /\ wal_senders[w].pc \in {"notified", "timed_out"}
    /\ sk_mutex = "free"
    /\ wal_senders' = [wal_senders EXCEPT ![w] =
          IF @.pc = "timed_out"
          THEN [@ EXCEPT !.pc = "returned", !.res = None,
                         !.at_return = notified_commit_lsn]
          ELSE WaitLoop(@, notified_commit_lsn)]
    /\ UNCHANGED <<sk_mutex, sk_commit_lsn, notified_commit_lsn>>
    /\ UNCHANGED not_sk_vars

\* process_msg or record_safekeeper_info takes the mutex and the safekeeper
\* sets its commit LSN.
ProcessMsg(commit_lsn) ==
    /\ sk_mutex = "free"
    /\ sk_mutex' = "locked"
    /\ sk_commit_lsn' = commit_lsn
    /\ UNCHANGED <<notified_commit_lsn, wal_senders>>
    /\ UNCHANGED not_sk_vars

\* notify_wal_senders raises the notified commit LSN; with nothing to
\* notify the caller lets go of the mutex.
NotifyWalSenders ==
    /\ sk_mutex = "locked"
    /\ IF notified_commit_lsn < sk_commit_lsn
       THEN /\ notified_commit_lsn' = sk_commit_lsn
            /\ sk_mutex' = "raised"
       ELSE /\ sk_mutex' = "free"
            /\ UNCHANGED notified_commit_lsn
    /\ UNCHANGED <<sk_commit_lsn, wal_senders>>
    /\ UNCHANGED not_sk_vars

\* notify_wal_senders wakes the threads that wait on the condition variable,
\* and the caller lets go of the mutex.
NotifyAll ==
    /\ sk_mutex = "raised"
    /\ sk_mutex' = "free"
    /\ wal_senders' = [w \in WalSenders |->
          IF wal_senders[w].pc = "waiting"
          THEN [wal_senders[w] EXCEPT !.pc = "notified"]
          ELSE wal_senders[w]]
    /\ UNCHANGED <<sk_commit_lsn, notified_commit_lsn>>
    /\ UNCHANGED not_sk_vars

\* ------------------------------------------------------------------- writer
\* The outcome of a writer call: the rows, the cache and the durable LSN it
\* leaves, and its result.
Outcome(st, m, dcl, res) == [st |-> st, m |-> m, dcl |-> dcl, res |-> res]

\* A put that extends the entity only when the block is beyond its size.
PutPageVersionLateExtend(st, m, dcl, lsn, rel, blknum, value) ==
    IF ~IsBlocky(rel) /\ blknum # 0 THEN Outcome(st, m, dcl, Err("InvalidRequest"))
    ELSE IF ~IsAligned(lsn) THEN Outcome(st, m, dcl, Err("UnalignedLsn"))
    ELSE LET st1 == StorePut(st, DataKey(rel, blknum, lsn), SerPageVersion(value))
             lm == LoadMetadata(st1, m)
         IN IF ~lm.ok THEN Outcome(st1, m, dcl, lm)
            ELSE IF (IF rel \in DOMAIN lm.v THEN lm.v[rel].size ELSE 0) < blknum
                 THEN Outcome(
                        StorePut(st1, MetadataKey(rel, lsn),
                                 SerMetadataValue([size |-> Some(blknum + 1)])),
                        Some(MapInsert(lm.v, rel,
                                       [size |-> blknum + 1, lsn |-> lsn])),
                        lsn, Ok(TRUE))
                 ELSE Outcome(st1, Some(lm.v), lsn, Ok(TRUE))

\* A put that updates the metadata and leaves the Data row out.
PutPageVersionNoDataRow(st, m, dcl, lsn, rel, blknum, value) ==
    IF ~IsBlocky(rel) /\ blknum # 0 THEN Outcome(st, m, dcl, Err("InvalidRequest"))
    ELSE IF ~IsAligned(lsn) THEN Outcome(st, m, dcl, Err("UnalignedLsn"))
    ELSE LET lm == LoadMetadata(st, m)
         IN IF ~lm.ok THEN Outcome(st, m, dcl, lm)
            ELSE IF (IF rel \in DOMAIN lm.v THEN lm.v[rel].size ELSE 0) <= blknum
                 THEN Outcome(
                        StorePut(st, MetadataKey(rel, lsn),
                                 SerMetadataValue([size |-> Some(blknum + 1)])),
                        Some(MapInsert(lm.v, rel,
                                       [size |-> blknum + 1, lsn |-> lsn])),
                        lsn, Ok(TRUE))
                 ELSE Outcome(st, Some(lm.v), lsn, Ok(TRUE))

\* put_wal_record and put_page_image share their body; `value` is the
\* PageVersion they store.
PutPageVersion(st, m, dcl, lsn, rel, blknum, value) ==
    IF ~IsBlocky(rel) /\ blknum # 0 THEN Outcome(st, m, dcl, Err("InvalidRequest"))
    ELSE IF ~IsAligned(lsn) THEN Outcome(st, m, dcl, Err("UnalignedLsn"))
    ELSE LET st1 == StorePut(st, DataKey(rel, blknum, lsn), SerPageVersion(value))
             lm == LoadMetadata(st1, m)
         IN IF ~lm.ok THEN Outcome(st1, m, dcl, lm)
            ELSE IF (IF rel \in DOMAIN lm.v THEN lm.v[rel].size ELSE 0) <= blknum
                 THEN Outcome(
                        StorePut(st1, MetadataKey(rel, lsn),
                                 SerMetadataValue([size |-> Some(blknum + 1)])),
                        Some(MapInsert(lm.v, rel,
                                       [size |-> blknum + 1, lsn |-> lsn])),
                        lsn, Ok(TRUE))
                 ELSE Outcome(st1, Some(lm.v), lsn, Ok(TRUE))

PutTruncationOutcome(st, m, dcl, rel, lsn, relsize) ==
    IF ~IsBlocky(rel) THEN Outcome(st, m, dcl, Err("InvalidRequest"))
    ELSE IF ~IsAligned(lsn) THEN Outcome(st, m, dcl, Err("UnalignedLsn"))
    ELSE LET lm == LoadMetadata(st, m) IN
         IF ~lm.ok THEN Outcome(st, m, dcl, lm)
         ELSE Outcome(
                StorePut(st, MetadataKey(rel, lsn),
                         SerMetadataValue([size |-> Some(relsize)])),
                Some(MapInsert(lm.v, rel, [size |-> relsize, lsn |-> lsn])),
                lsn, Ok(TRUE))

\* drop_relish that leaves the entity's snapshot in the cache.
DropRelishKeepSnapshot(st, m, dcl, rel, lsn) ==
    LET lm == LoadMetadata(st, m) IN
    IF ~lm.ok THEN Outcome(st, m, dcl, lm)
    ELSE Outcome(
           StorePut(st, MetadataKey(rel, lsn), SerMetadataValue([size |-> None])),
           Some(lm.v),
           lsn, Ok(TRUE))

DropRelishOutcome(st, m, dcl, rel, lsn) ==
    LET lm == LoadMetadata(st, m) IN
    IF ~lm.ok THEN Outcome(st, m, dcl, lm)
    ELSE Outcome(
           StorePut(st, MetadataKey(rel, lsn), SerMetadataValue([size |-> None])),
           Some(MapRemove(lm.v, rel)),
           lsn, Ok(TRUE))

\* A writer whose timeline handle reaches one store shared by all timelines.
ApplyOutcomeSharedStore(t, o, lsn) ==
    /\ UNCHANGED <<file, open, last_record_lsn, ckpt, waiters>>
    /\ store' = [u \in TimelineIds |-> o.st]
    /\ meta' = [meta EXCEPT ![t] = o.m]
    /\ disk_consistent_lsn' = [disk_consistent_lsn EXCEPT ![t] = o.dcl]
    /\ nwrites' = IF o.st = store[t] THEN nwrites ELSE nwrites + 1

\* A writer call on timeline t with outcome o, at LSN lsn.
ApplyOutcome(t, o, lsn) ==
    /\ UNCHANGED <<file, open, last_record_lsn, ckpt, waiters>>
    /\ store' = [store EXCEPT ![t] = o.st]
    /\ meta' = [meta EXCEPT ![t] = o.m]
    /\ disk_consistent_lsn' = [disk_consistent_lsn EXCEPT ![t] = o.dcl]
    /\ nwrites' = IF o.st = store[t] THEN nwrites ELSE nwrites + 1

PutWalRecord(t, lsn, rel, blknum, rec) ==
    /\ t \in open
    /\ ApplyOutcome(t, PutPageVersion(store[t], meta[t], disk_consistent_lsn[t],
                                      lsn, rel, blknum, PvDelta(rec)), lsn)

PutPageImage(t, rel, blknum, lsn, img) ==
    /\ t \in open
    /\ ApplyOutcome(t, PutPageVersion(store[t], meta[t], disk_consistent_lsn[t],
                                      lsn, rel, blknum, PvImage(img)), lsn)

PutTruncation(t, rel, lsn, relsize) ==
    /\ t \in open
    /\ ApplyOutcome(t, PutTruncationOutcome(store[t], meta[t],
                          disk_consistent_lsn[t], rel, lsn, relsize), lsn)

DropRelish(t, rel, lsn) ==
    /\ t \in open
    /\ ApplyOutcome(t, DropRelishOutcome(store[t], meta[t],
                          disk_consistent_lsn[t], rel, lsn), lsn)

\* SeqWait::advance on RecordLsn: a no-op unless new_lsn is above the
\* current value.
Advance(rlsn, new_lsn) ==
    IF rlsn.last >= new_lsn THEN rlsn
    ELSE [last |-> new_lsn, prev |-> rlsn.last]

\* SeqWait::advance wakes the waiters of the gate whose target is at or
\* below the new value.
WakeWaiters(ws, t, new_lsn) ==
    [w \in DOMAIN ws |->
        IF ws[w].pc = "waiting" /\ ws[w].t = t /\ ws[w].lsn <= new_lsn
        THEN [ws[w] EXCEPT !.pc = "woken"]
        ELSE ws[w]]

\* An advance that moves the gate and wakes nobody.
AdvanceLastRecordLsnNoWake(t, new_lsn) ==
    /\ t \in open
    /\ IsAligned(new_lsn)
    /\ last_record_lsn' = [last_record_lsn EXCEPT ![t] = Advance(@, new_lsn)]
    /\ UNCHANGED <<file, store, open, meta, disk_consistent_lsn, ckpt, nwrites,
                   waiters>>

AdvanceLastRecordLsn(t, new_lsn) ==
    /\ t \in open
    /\ IsAligned(new_lsn)
    /\ last_record_lsn' = [last_record_lsn EXCEPT ![t] = Advance(@, new_lsn)]
    /\ waiters' = WakeWaiters(waiters, t, new_lsn)
    /\ UNCHANGED <<file, store, open, meta, disk_consistent_lsn, ckpt, nwrites>>

\* ----------------------------------------------------------------- wait_lsn
\* wait_lsn maps the outcome of SeqWait::wait_for_timeout to its result: Ok
\* when the waiter was let through, the timeout error otherwise.
\* A wait_lsn that swallows the timeout.
WaitLsnIgnoreTimeout(passed) == Ok(TRUE)

WaitLsnResult(passed) == IF passed THEN Ok(TRUE) ELSE Err("Timeout")

\* A wait_lsn call on t that returns now: its result, the seconds it was
\* blocked and the value of the gate at the return.
Returned(t, lsn, res, waited) ==
    [pc |-> "returned", t |-> t, lsn |-> lsn, res |-> res, waited |-> waited,
     at |-> last_record_lsn[t].last]

\* Reader w calls wait_lsn(lsn) on t: wait_for_timeout lets it through at
\* once when the gate is at or past lsn, and queues it otherwise.
WaitLsnBegin(w, t, lsn) ==
    /\ t \in open
    /\ waiters[w].pc \in {"none", "returned"}
    /\ waiters' = [waiters EXCEPT ![w] =
           IF last_record_lsn[t].last >= lsn
           THEN Returned(t, lsn, WaitLsnResult(TRUE), 0)
           ELSE [pc |-> "waiting", t |-> t, lsn |-> lsn, waited |-> 0]]
    /\ UNCHANGED <<file, store, open, meta, last_record_lsn,
                   disk_consistent_lsn, ckpt, nwrites, ingest,
                   branch, gc, other_vars>>

\* TickSecs seconds pass for the blocked readers.
Tick ==
    /\ \E w \in Readers : waiters[w].pc = "waiting" /\ waiters[w].waited < TIMEOUT
    /\ waiters' = [w \in Readers |->
           IF waiters[w].pc = "waiting" /\ waiters[w].waited < TIMEOUT
           THEN [waiters[w] EXCEPT !.waited =
                    IF @ + TickSecs > TIMEOUT THEN TIMEOUT ELSE @ + TickSecs]
           ELSE waiters[w]]
    /\ UNCHANGED <<file, store, open, meta, last_record_lsn,
                   disk_consistent_lsn, ckpt, nwrites, ingest,
                   branch, gc, other_vars>>

\* The wait_lsn call of reader w returns: it was woken, or TIMEOUT has passed.
WaitLsnReturn(w) ==
    /\ \/ waiters[w].pc = "woken"
       \/ waiters[w].pc = "waiting" /\ waiters[w].waited >= TIMEOUT
    /\ waiters' = [waiters EXCEPT ![w] =
           Returned(@.t, @.lsn, WaitLsnResult(@.pc = "woken"), @.waited)]
    /\ UNCHANGED <<file, store, open, meta, last_record_lsn,
                   disk_consistent_lsn, ckpt, nwrites, ingest,
                   branch, gc, other_vars>>

\* --------------------------------------------------------------- checkpoint
\* checkpoint_internal runs as a loop of two kinds of steps: under the read
\* lock it takes the newest row below `till` and collects its chain; with no
\* lock held it reconstructs the page, and under the write lock it puts it.
CheckpointFrom == DataKey(RelTagMin, 0, 0)
CheckpointTill == DataKey(RelTagMax, U32MAX, LsnMAX)

RECURSIVE HistoryLen(_)
HistoryLen(records) ==
    IF records = <<>> THEN 0
    ELSE Len(Head(records)[2].rec) + HistoryLen(Tail(records))

\* One pass of the loop body up to the release of the read lock: the next
\* position of the checkpoint.
ScanStep(st, c) ==
    LET r == RangeExcl(st, CheckpointFrom, c.till) IN
    IF r = {} THEN [pc |-> "done", ok |-> TRUE]
    ELSE LET it == RevIter(r)
             key == it[1]
             next == [pc |-> "scan", dist |-> c.dist,
                      till |-> DataKey(key[2], key[3], 0)]
         IN IF key[1] # DataTag THEN [pc |-> "done", ok |-> FALSE]
            ELSE LET ver == DesPageVersion(st[key]) IN
                 IF ~ver.ok THEN [pc |-> "done", ok |-> FALSE]
                 ELSE IF ver.v.ty = "Image" THEN next
                 ELSE LET d == CollectChain(st, key[2], it, 2,
                                  ver.v.rec.will_init,
                                  [records |-> << <<key[4], ver.v.rec>> >>,
                                   page_img |-> None])
                      IN IF ~d.ok THEN [pc |-> "done", ok |-> FALSE]
                         ELSE IF HistoryLen(d.v.records) >= c.dist
                              THEN [pc |-> "put", dist |-> c.dist, key |-> key,
                                    data |-> d.v]
                              ELSE next

\* The bytes checkpoint_internal puts for a reconstructed page.
CheckpointValue(img) == RawBytes(img)

\* A checkpoint that puts the page at the LSN of the oldest record of the
\* chain it collected.
PutStepAtChainStart(st, c) ==
    LET img == ReconstructPage(c.data) IN
    IF ~img.ok THEN [st |-> st, c |-> [pc |-> "done", ok |-> FALSE]]
    ELSE [st |-> StorePut(st, DataKey(c.key[2], c.key[3],
                                      c.data.records[Len(c.data.records)][1]),
                          CheckpointValue(img.v)),
          c |-> [pc |-> "scan", dist |-> c.dist,
                 till |-> DataKey(c.key[2], c.key[3], 0)]]

\* The rest of the loop body for a chain that is long enough: reconstruct
\* the page with no lock held, put it under the write lock and move `till`
\* to the previous page.
PutStep(st, c) ==
    LET img == ReconstructPage(c.data) IN
    IF ~img.ok THEN [st |-> st, c |-> [pc |-> "done", ok |-> FALSE]]
    ELSE [st |-> StorePut(st, c.key, CheckpointValue(img.v)),
          c |-> [pc |-> "scan", dist |-> c.dist,
                 till |-> DataKey(c.key[2], c.key[3], 0)]]

\* checkpoint_internal run from position c to its return with no other
\* thread in between: the rows it leaves.
RECURSIVE RunCheckpoint(_, _)
RunCheckpoint(st, c) ==
    IF c.pc = "done" THEN st
    ELSE IF c.pc = "scan" THEN RunCheckpoint(st, ScanStep(st, c))
    ELSE LET p == PutStep(st, c) IN RunCheckpoint(p.st, p.c)

\* Whether checkpoint_internal run from position c returns Ok.
RECURSIVE CheckpointOk(_, _)
CheckpointOk(st, c) ==
    IF c.pc = "done" THEN c.ok
    ELSE IF c.pc = "scan" THEN CheckpointOk(st, ScanStep(st, c))
    ELSE LET p == PutStep(st, c) IN CheckpointOk(p.st, p.c)

CheckpointStart(dist) == [pc |-> "scan", dist |-> dist, till |-> CheckpointTill]

\* The (key, data) pairs checkpoint_internal, run from position c with no
\* other thread in between, passes to reconstruct_page.
RECURSIVE CheckpointRedos(_, _)
CheckpointRedos(st, c) ==
    IF c.pc = "done" THEN {}
    ELSE IF c.pc = "scan" THEN CheckpointRedos(st, ScanStep(st, c))
    ELSE LET p == PutStep(st, c) IN
         {[key |-> c.key, data |-> c.data]} \cup CheckpointRedos(p.st, p.c)

\* checkpoint_internal(dist) on t, with no writer call during it.
Checkpoint(t, dist) ==
    /\ t \in open
    /\ ckpt[t].pc = "idle"
    /\ UNCHANGED <<file, open, meta, last_record_lsn, disk_consistent_lsn,
                   ckpt, nwrites, waiters, ingest,
                   branch, gc, other_vars>>
    /\ store' = [store EXCEPT ![t] = RunCheckpoint(@, CheckpointStart(dist))]

\* checkpoint_internal(dist) on t step by step, writer calls in between.
\* The tenant has one checkpointer thread, which takes the timelines in turn.
CheckpointBegin(t, dist) ==
    /\ t \in open
    /\ \A u \in TimelineIds : ckpt[u].pc = "idle"
    /\ ckpt' = [ckpt EXCEPT ![t] = CheckpointStart(dist)]
    /\ UNCHANGED <<file, store, open, meta, last_record_lsn,
                   disk_consistent_lsn, nwrites, waiters, ingest,
                   branch, gc, other_vars>>

CheckpointScan(t) ==
    /\ t \in open
    /\ ckpt[t].pc = "scan"
    /\ LET c == ScanStep(store[t], ckpt[t]) IN
       ckpt' = [ckpt EXCEPT ![t] = IF c.pc = "done" THEN Idle ELSE c]
    /\ UNCHANGED <<file, store, open, meta, last_record_lsn,
                   disk_consistent_lsn, nwrites, waiters, ingest,
                   branch, gc, other_vars>>

CheckpointPut(t) ==
    /\ t \in open
    /\ ckpt[t].pc = "put"
    /\ LET p == PutStep(store[t], ckpt[t]) IN
       /\ store' = [store EXCEPT ![t] = p.st]
       /\ ckpt' = [ckpt EXCEPT ![t] = IF p.c.pc = "done" THEN Idle ELSE p.c]
    /\ UNCHANGED <<file, open, meta, last_record_lsn, disk_consistent_lsn,
                   nwrites, waiters, ingest,
                   branch, gc, other_vars>>

\* ----------------------------------------------------------------------- gc
\* gc_iteration_internal takes the mutex of the map, scans the timelines
\* directory, loads every timeline found and notes the branch points; then
\* it takes the timelines one by one; the mutex is released at its return.
\* The timelines get_timeline_locked inserts for the directory entries ids.
GcToLoad(ids) == UNION {ToLoad(u, open) : u \in ids}

\* The (ancestor, ancestor_lsn) pairs of the timelines ids, those of the
\* children of the target only when there is a target.
Branchpoints(ids, target) ==
    LET children == {v \in ids :
                       file[v].v.ancestor_timeline.some /\
                       (target.some =>
                           file[v].v.ancestor_timeline.v = target.v)}
    IN {<<file[u].v.ancestor_timeline.v, file[u].v.ancestor_lsn>> :
           u \in children}

GcBegin(target, horizon, checkpoint_before_gc) ==
    LET ids == {t \in TimelineIds : DirExists(t)} IN
    /\ gc.pc = "idle"
    /\ IF \A u \in GcToLoad(ids) : CanLoad(u)
       THEN /\ OpenTimelines(GcToLoad(ids))
            /\ gc' = [pc |-> "sweep",
                      todo |-> IF target.some THEN ids \cap {target.v} ELSE ids,
                      all_branchpoints |-> Branchpoints(ids, target),
                      horizon |-> horizon,
                      checkpoint_before_gc |-> checkpoint_before_gc]
       ELSE \* the error of the first timeline that does not load ends the
            \* call; the timelines visited before it stay loaded
            /\ \E done \in SUBSET {u \in ids : \A v \in ToLoad(u, open) : CanLoad(v)} :
                  OpenTimelines(GcToLoad(done))
            /\ UNCHANGED gc
    /\ UNCHANGED <<file, store, ckpt, nwrites, waiters, ingest, branch,
                   other_vars>>

\* last_record_lsn.checked_sub(horizon)
Cutoff(t) ==
    IF last_record_lsn[t].last >= gc.horizon
    THEN Some(last_record_lsn[t].last - gc.horizon) ELSE None

\* The retain LSNs gc_iteration_internal passes to gc_timeline for t.
RetainLsns(t) == {bp[2] : bp \in {b \in gc.all_branchpoints : b[1] = t}}

\* gc_timeline removes nothing.
GcTimeline(st, retain_lsns, cutoff) == st

\* The pass of the second loop for timeline t: the checkpoint when it was
\* asked for, and gc_timeline.
GcSweep(t) ==
    /\ gc.pc = "sweep"
    /\ t \in gc.todo
    /\ IF ~Cutoff(t).some
       THEN /\ UNCHANGED store
            /\ gc' = [gc EXCEPT !.todo = @ \ {t}]
       ELSE IF ~gc.checkpoint_before_gc
       THEN /\ store' = [store EXCEPT ![t] =
                            GcTimeline(@, RetainLsns(t), Cutoff(t).v)]
            /\ gc' = [gc EXCEPT !.todo = @ \ {t}]
       ELSE IF CheckpointOk(store[t], CheckpointStart(0))
       THEN /\ store' = [store EXCEPT ![t] =
                            GcTimeline(RunCheckpoint(@, CheckpointStart(0)),
                                       RetainLsns(t), Cutoff(t).v)]
            /\ gc' = [gc EXCEPT !.todo = @ \ {t}]
       ELSE /\ store' = [store EXCEPT ![t] =
                            RunCheckpoint(@, CheckpointStart(0))]
            /\ gc' = Idle
    /\ UNCHANGED <<file, open, meta, last_record_lsn, disk_consistent_lsn,
                   ckpt, nwrites, waiters, ingest, branch, other_vars>>

GcEnd ==
    /\ gc.pc = "sweep"
    /\ gc.todo = {}
    /\ gc' = Idle
    /\ UNCHANGED <<file, store, open, meta, last_record_lsn,
                   disk_consistent_lsn, ckpt, nwrites, waiters, ingest, branch,
                   other_vars>>

\* --------------------------------------------------------------------- next
\* The WAL receiver is the one writer of a timeline: it takes the records in
\* stream order, makes the writer calls of the record at lsn and then
\* advances last_record_lsn to lsn.
\* budget bounds the number of writer calls of one behaviour.
IngestOrder(t, lsn, budget) ==
    /\ UNCHANGED <<ingest, branch, gc, other_vars>>
    /\ nwrites < budget
    /\ lsn > last_record_lsn[t].last
    /\ lsn >= MaxStoreLsn(store[t])

Writes(ids, budget) ==
    \/ \E t \in ids, lsn \in Lsns, rel \in Rels, blknum \in Blknums,
          rec \in WalRecords :
          IngestOrder(t, lsn, budget) /\ PutWalRecord(t, lsn, rel, blknum, rec)
    \/ \E t \in ids, lsn \in Lsns, rel \in Rels, blknum \in Blknums,
          img \in Images :
          IngestOrder(t, lsn, budget) /\ PutPageImage(t, rel, blknum, lsn, img)
    \/ \E t \in ids, lsn \in Lsns, rel \in Rels, relsize \in Blknums :
          IngestOrder(t, lsn, budget) /\ PutTruncation(t, rel, lsn, relsize)
    \/ \E t \in ids, lsn \in Lsns, rel \in Rels :
          IngestOrder(t, lsn, budget) /\ DropRelish(t, rel, lsn)

Advances(ids) ==
    \E t \in ids, lsn \in Lsns :
       /\ UNCHANGED <<ingest, branch, gc, other_vars>>
       /\ lsn >= MaxStoreLsn(store[t])
       /\ AdvanceLastRecordLsn(t, lsn)

CheckpointDistances == {0, CheckpointDistance}

\* One timeline: ingest, reads and checkpoints.
Next ==
    \/ \E t \in RootIds : CreateEmptyTimeline(t)
    \/ Writes(RootIds, MaxWrites)
    \/ Advances(RootIds)
    \/ \E t \in RootIds, dist \in CheckpointDistances : Checkpoint(t, dist)

Spec == Init /\ [][Next]_vars

\* One timeline with the checkpointer running beside the ingest.
NextConc ==
    \/ \E t \in RootIds : CreateEmptyTimeline(t)
    \/ Writes(RootIds, MaxConcWrites)
    \/ Advances(RootIds)
    \/ \E t \in RootIds, dist \in CheckpointDistances : CheckpointBegin(t, dist)
    \/ \E t \in RootIds : CheckpointScan(t)
    \/ \E t \in RootIds : CheckpointPut(t)

SpecConc == Init /\ [][NextConc]_vars

\* The repository: a root timeline and a branch of it, each with its own
\* ingest, and the process restarting over the same directory.
NextRepo ==
    \/ \E t \in RootIds : CreateEmptyTimeline(t)
    \/ \E src \in RootIds, dst \in BranchIds, lsn \in BranchLsns :
          BranchTimeline(src, dst, lsn)
    \/ \E t \in TimelineIds : GetTimeline(t)
    \/ Writes(TimelineIds, MaxRepoWrites)
    \/ Advances(TimelineIds)

SpecRepo == Init /\ [][NextRepo]_vars

\* The repository with branch_timeline running step by step beside
\* create_empty_timeline and get_timeline calls.
NextBranch ==
    \/ \E t \in TimelineIds : CreateEmptyTimeline(t)
    \/ \E src \in RootIds, dst \in BranchIds, lsn \in BranchLsns :
          BranchBegin(src, dst, lsn)
    \/ BranchMkdir
    \/ BranchOpen
    \/ BranchWrite
    \/ BranchSync
    \/ \E t \in TimelineIds : GetTimeline(t)
    \/ Advances(TimelineIds)

SpecBranch == Init /\ [][NextBranch]_vars

GcTargets == {None} \cup {Some(t) : t \in RootIds}
GcHorizons == {0, GcHorizon}

\* The repository with the garbage collector running beside
\* branch_timeline, which runs step by step.
NextGcBranch ==
    \/ \E t \in RootIds : CreateEmptyTimeline(t)
    \/ Advances(RootIds)
    \/ \E src \in RootIds, dst \in BranchIds, lsn \in BranchLsns :
          BranchBegin(src, dst, lsn)
    \/ BranchMkdir
    \/ BranchOpen
    \/ BranchWrite
    \/ BranchSync
    \/ \E target \in GcTargets, horizon \in GcHorizons, cbg \in BOOLEAN :
          GcBegin(target, horizon, cbg)
    \/ \E t \in TimelineIds : GcSweep(t)
    \/ GcEnd

SpecGcBranch == Init /\ [][NextGcBranch]_vars

\* The root timeline and a branch of it, with the garbage collector
\* running beside the ingest of the root.
NextGc ==
    \/ \E t \in RootIds : CreateEmptyTimeline(t)
    \/ Writes(RootIds, MaxGcWrites)
    \/ Advances(RootIds)
    \/ \E src \in RootIds, dst \in BranchIds, lsn \in BranchLsns :
          BranchTimeline(src, dst, lsn)
    \/ \E horizon \in GcHorizons, cbg \in BOOLEAN : GcBegin(None, horizon, cbg)
    \/ \E t \in TimelineIds : GcSweep(t)
    \/ GcEnd

SpecGc == Init /\ [][NextGc]_vars

\* The writer calls ingest_record makes for a decoded WAL record, in order.
DecodedRecords ==
    {<<[op |-> "put_wal_record", rel |-> RelA, blknum |-> 0,
        rec |-> [will_init |-> FALSE, rec |-> <<1>>]]>>,
     <<[op |-> "put_page_image", rel |-> RelA, blknum |-> 0, img |-> <<10>>],
       [op |-> "put_wal_record", rel |-> RelA, blknum |-> MaxBlk,
        rec |-> [will_init |-> TRUE, rec |-> <<3, 3>>]]>>,
     <<[op |-> "put_truncation", rel |-> RelA, relsize |-> 0]>>,
     <<[op |-> "drop_relish", rel |-> RelA]>>}

\* The key of the row a writer call of a record at lsn stores.
RowOf(mod, lsn) ==
    IF mod.op \in {"put_wal_record", "put_page_image"}
    THEN DataKey(mod.rel, mod.blknum, lsn)
    ELSE MetadataKey(mod.rel, lsn)

RowsOf(mods, lsn) == {RowOf(mods[i], lsn) : i \in DOMAIN mods}

\* The decoder hands the next record of the stream to the loop: the record
\* must be aligned, or the loop ends with an error.
IngestBegin(t, lsn, mods) ==
    /\ ingest.pc = "idle"
    /\ t \in open
    /\ lsn > last_record_lsn[t].last
    /\ ingest' = IF IsAligned(lsn)
                 THEN [pc |-> "record", t |-> t, lsn |-> lsn, todo |-> mods,
                       begun |-> ingest.begun \cup
                                    {[lsn |-> lsn, rows |-> RowsOf(mods, lsn)]}]
                 ELSE [pc |-> "failed", begun |-> ingest.begun]
    /\ UNCHANGED <<file, store, open, meta, last_record_lsn,
                   disk_consistent_lsn, ckpt, nwrites, waiters, branch, gc, other_vars>>

\* The result of writer call mod of a record at lsn on timeline t.
WriterResult(t, mod, lsn) ==
    IF mod.op = "put_wal_record"
    THEN PutPageVersion(store[t], meta[t], disk_consistent_lsn[t], lsn,
                        mod.rel, mod.blknum, PvDelta(mod.rec)).res
    ELSE IF mod.op = "put_page_image"
    THEN PutPageVersion(store[t], meta[t], disk_consistent_lsn[t], lsn,
                        mod.rel, mod.blknum, PvImage(mod.img)).res
    ELSE IF mod.op = "put_truncation"
    THEN PutTruncationOutcome(store[t], meta[t], disk_consistent_lsn[t],
                              mod.rel, lsn, mod.relsize).res
    ELSE DropRelishOutcome(store[t], meta[t], disk_consistent_lsn[t],
                           mod.rel, lsn).res

\* ingest_record makes the next writer call of the record; an error ends
\* the loop.
IngestWrite(t) ==
    /\ ingest.pc = "record" /\ ingest.t = t
    /\ ingest.todo # <<>>
    /\ LET mod == Head(ingest.todo) IN
       \/ /\ mod.op = "put_wal_record"
          /\ PutWalRecord(t, ingest.lsn, mod.rel, mod.blknum, mod.rec)
       \/ /\ mod.op = "put_page_image"
          /\ PutPageImage(t, mod.rel, mod.blknum, ingest.lsn, mod.img)
       \/ /\ mod.op = "put_truncation"
          /\ PutTruncation(t, mod.rel, ingest.lsn, mod.relsize)
       \/ /\ mod.op = "drop_relish"
          /\ DropRelish(t, mod.rel, ingest.lsn)
    /\ ingest' = IF WriterResult(t, Head(ingest.todo), ingest.lsn).ok
                 THEN [ingest EXCEPT !.todo = Tail(@)]
                 ELSE [pc |-> "failed", begun |-> ingest.begun]
    /\ UNCHANGED <<branch, gc, other_vars>>

\* ingest_record ends with advance_last_record_lsn(lsn).
IngestAdvance(t) ==
    /\ ingest.pc = "record" /\ ingest.t = t
    /\ ingest.todo = <<>>
    /\ AdvanceLastRecordLsn(t, ingest.lsn)
    /\ ingest' = BetweenRecords(ingest.begun)
    /\ UNCHANGED <<branch, gc, other_vars>>

\* One timeline with the WAL receiver taking the records one by one and
\* reader threads blocking on the gate.
NextIngest ==
    \/ \E t \in RootIds : CreateEmptyTimeline(t)
    \/ \E t \in RootIds, lsn \in Lsns, mods \in DecodedRecords :
          IngestBegin(t, lsn, mods)
    \/ \E t \in RootIds : IngestWrite(t)
    \/ \E t \in RootIds : IngestAdvance(t)
    \/ \E w \in Readers, t \in RootIds, lsn \in Lsns : WaitLsnBegin(w, t, lsn)
    \/ Tick
    \/ \E w \in Readers : WaitLsnReturn(w)

SpecIngest == Init /\ [][NextIngest]_vars

\* One timeline with reader threads blocking on its gate.
NextWait ==
    \/ \E t \in RootIds : CreateEmptyTimeline(t)
    \/ Advances(RootIds)
    \/ \E w \in Readers, t \in RootIds, lsn \in Lsns : WaitLsnBegin(w, t, lsn)
    \/ Tick
    \/ \E w \in Readers : WaitLsnReturn(w)

SpecWait == Init /\ [][NextWait]_vars

\* Time passes, and a reader that was woken or has timed out returns.
\* The relations written where relations are listed: the first and the
\* last tag of database 1, and a relation of database 2.
ListedRels == {FromRel(1), TillRel(1), FromRel(2) + 1}

\* One timeline with relations of two databases created, truncated and
\* dropped.
NextList ==
    \/ \E t \in RootIds : CreateEmptyTimeline(t)
    \/ \E t \in RootIds, lsn \in Lsns, rel \in ListedRels, img \in Images :
          IngestOrder(t, lsn, MaxListWrites) /\ PutPageImage(t, rel, 0, lsn, img)
    \/ \E t \in RootIds, lsn \in Lsns, rel \in ListedRels, relsize \in Blknums :
          IngestOrder(t, lsn, MaxListWrites) /\ PutTruncation(t, rel, lsn, relsize)
    \/ \E t \in RootIds, lsn \in Lsns, rel \in ListedRels :
          IngestOrder(t, lsn, MaxListWrites) /\ DropRelish(t, rel, lsn)
    \/ Advances(RootIds)

SpecList == Init /\ [][NextList]_vars

\* The entities written where the logical size is computed: a relation of
\* database 0, a relation of database 1 and an SLRU segment.
SizedRels == {TillRel(0), FromRel(1), SlruSeg}

\* One timeline whose relations and SLRU segments grow, shrink and are
\* dropped.
NextSize ==
    \/ \E t \in RootIds : CreateEmptyTimeline(t)
    \/ \E t \in RootIds, lsn \in Lsns, rel \in SizedRels, blknum \in Blknums,
          img \in Images :
          IngestOrder(t, lsn, MaxListWrites) /\ PutPageImage(t, rel, blknum, lsn, img)
    \/ \E t \in RootIds, lsn \in Lsns, rel \in SizedRels, relsize \in Blknums :
          IngestOrder(t, lsn, MaxListWrites) /\ PutTruncation(t, rel, lsn, relsize)
    \/ \E t \in RootIds, lsn \in Lsns, rel \in SizedRels :
          IngestOrder(t, lsn, MaxListWrites) /\ DropRelish(t, rel, lsn)
    \/ Advances(RootIds)

SpecSize == Init /\ [][NextSize]_vars

\* Calls of VirtualFiles by one thread, beside the same calls of std Files.
NextVFile ==
    \/ \E num_slots \in 1 .. MaxSlots : VirtualFileInit(num_slots)
    \/ /\ nops < MaxOps
       /\ \E vf \in VFileIds, path \in Paths, open_options \in OpenOptionsSet :
             OpenWithOptions(1, vf, path, open_options)
    \/ /\ nops < MaxOps
       /\ \E vf \in VFileIds, op \in Calls : WithFileBegin(1, vf, op)
    \/ WithFileSlot(1)
    \/ WithFileHandle(1)
    \/ FindVictimSlot(1)
    \/ OpenPhysical(1)
    \/ StoreFile(1)
    \/ /\ nops < MaxOps
       /\ \E vf \in VFileIds, op \in Seeks : SeekVirtualFile(vf, op)
    \/ \E vf \in VFileIds : DropVirtualFile(vf)

SpecVFile == Init /\ [][NextVFile]_vars

\* Threads that open, read and drop VirtualFiles concurrently.
NextSlots ==
    \/ \E num_slots \in 1 .. MaxSlots : VirtualFileInit(num_slots)
    \/ /\ nops < MaxConcOps
       /\ \E th \in VThreadIds, vf \in VFileIds :
             \/ OpenWithOptions(th, vf, "a", OpenCreate)
             \/ OpenWithOptions(th, vf, "b", OpenCreate)
    \/ /\ nops < MaxConcOps
       /\ \E th \in VThreadIds, vf \in VFileIds :
             WithFileBegin(th, vf, [kind |-> "read_at", len |-> 1, offset |-> 0])
    \/ \E th \in VThreadIds : WithFileSlot(th)
    \/ \E th \in VThreadIds : WithFileHandle(th)
    \/ \E th \in VThreadIds : FindVictimSlot(th)
    \/ \E th \in VThreadIds : FindVictimSlotWait(th)
    \/ \E th \in VThreadIds : OpenPhysical(th)
    \/ \E th \in VThreadIds : StoreFile(th)
    \/ \E vf \in VFileIds : DropVirtualFile(vf)

SpecSlots == Init /\ [][NextSlots]_vars

\* Computes connect to and disconnect from a safekeeper timeline while WAL
\* is committed and WAL senders report what their replicas have received.
NextCompute ==
    \/ \E connstr \in PageserverConnstrs : OnComputeConnect(connstr)
    \/ OnComputeDisconnect
    \/ \E replica_id \in ReplicaIds : CheckDeactivate(replica_id)
    \/ \E id \in ReplicaIds, state \in ReplicaStates :
          UpdateReplicaState(id, state)
    \/ \E id \in ReplicaIds : RemoveReplica(id)
    \/ \E commit_lsn \in SkLsns : ProcessMsg(commit_lsn)
    \/ NotifyWalSenders
    \/ NotifyAll

SpecCompute == Init /\ [][NextCompute]_vars

\* Page versions are appended and iterated in block order.
PageVersionValues == {"p", "q"}
NextPageVersions ==
    \/ \E blknum \in 0 .. MaxPvBlk, lsn \in 1 .. MaxPvLsn,
          page_version \in PageVersionValues :
          AppendOrUpdateLast(blknum, lsn, page_version)
    \/ OrderedBlockIter
    \/ IterNext
    \/ IterDrop

SpecPageVersions == Init /\ [][NextPageVersions]_vars

\* WAL senders that wait for the commit LSN of a safekeeper timeline.
NextSafekeeper ==
    \/ \E w \in WalSenders, lsn \in SkLsns : WaitForLsn(w, lsn)
    \/ \E w \in WalSenders : PollTimeout(w)
    \/ \E w \in WalSenders : SpuriousWakeup(w)
    \/ \E w \in WalSenders : WaitTimeoutReturns(w)
    \/ \E commit_lsn \in SkLsns : ProcessMsg(commit_lsn)
    \/ NotifyWalSenders
    \/ NotifyAll

SpecSafekeeper == Init /\ [][NextSafekeeper]_vars

\* launch_wal_receiver calls beside the WAL receiver threads.
NextReceivers ==
    \/ \E key \in TimelineIds, connstr \in ConnStrs :
          LaunchWalReceiver(key, connstr)
    \/ \E id \in ThreadIds : ThreadLookup(id)
    \/ \E id \in ThreadIds : ThreadStreamEnds(id)
    \/ \E id \in ThreadIds : ThreadPanics(id)
    \/ \E id \in ThreadIds : ThreadDrops(id)

SpecReceivers == Init /\ [][NextReceivers]_vars

\* A metadata file: it is saved, may be damaged on disk, and is loaded.
NextMeta ==
    \/ \E data \in TimelineMetadatas : SaveMetadata(data)
    \/ \E offset \in ChangedOffsets, value \in ByteValues :
          ChangeByte(offset, value)
    \/ \E n \in ChangedLengths : ChangeLength(n)
    \/ LoadMetadataFile

SpecMeta == Init /\ [][NextMeta]_vars

SpecWaitLive ==
    /\ SpecWait
    /\ WF_vars(Tick)
    /\ \A w \in Readers : WF_vars(WaitLsnReturn(w))

\* ------------------------------------------------------------------- claims
\* Row (rel, blknum, lsn) of timeline t holds the serialized version pv: the
\* last write to that key was the put of pv.
HoldsVersion(t, rel, blknum, lsn, pv) ==
    /\ DataKey(rel, blknum, lsn) \in DOMAIN store[t]
    /\ store[t][DataKey(rel, blknum, lsn)] = SerPageVersion(pv)

Published(t, lsn) == t \in open /\ lsn <= last_record_lsn[t].last

\* C1: when the last write to the key (e, b, lsn) of a timeline was
\* put_page_image(e, b, lsn, img) and last_record_lsn has been advanced to
\* lsn or beyond, get_page_at_lsn(e, b, lsn) returns exactly img.
C1_ReadAfterWrite ==
    \A t \in TimelineIds, rel \in Rels, blknum \in Blknums, lsn \in Lsns,
       img \in Images :
       (Published(t, lsn) /\ HoldsVersion(t, rel, blknum, lsn, PvImage(img)))
       => GetPageAtLsn(t, rel, blknum, lsn) = Ok(img)

\* An image written above an older delta of the same page and published.
C1_Witness ==
    \E t \in TimelineIds, blknum \in Blknums, lsn \in Lsns, img \in Images :
       /\ Published(t, lsn)
       /\ HoldsVersion(t, RelA, blknum, lsn, PvImage(img))
       /\ \E l2 \in Lsns, rec \in WalRecords :
             l2 < lsn /\ HoldsVersion(t, RelA, blknum, l2, PvDelta(rec))
       /\ GetPageAtLsn(t, RelA, blknum, lsn) = Ok(img)

\* The LSNs at which timeline rows of page (rel, blknum) exist.
PageLsns(st, rel, blknum) ==
    {k[4] : k \in {j \in DOMAIN st :
                      j[1] = DataTag /\ j[2] = rel /\ j[3] = blknum}}
VersionAt(st, rel, blknum, lsn) == st[DataKey(rel, blknum, lsn)].v
MinOf(S) == CHOOSE x \in S : \A y \in S : x <= y
MaxOf(S) == CHOOSE x \in S : \A y \in S : y <= x

\* Every row of the page was written by put_page_image / put_wal_record.
WrittenByPuts(st, rel, blknum) ==
    \A l \in PageLsns(st, rel, blknum) :
       st[DataKey(rel, blknum, l)].enc = "PageVersion"
StartsWithImage(st, rel, blknum) ==
    /\ PageLsns(st, rel, blknum) # {}
    /\ VersionAt(st, rel, blknum, MinOf(PageLsns(st, rel, blknum))).ty = "Image"

\* The records stored at the LSNs of S applied to page in increasing LSN order.
RECURSIVE ChainRedo(_, _, _, _, _)
ChainRedo(st, rel, blknum, S, page) ==
    IF S = {} THEN page
    ELSE LET l == MinOf(S) IN
         ChainRedo(st, rel, blknum, S \ {l},
                   ApplyRecord(page, VersionAt(st, rel, blknum, l).rec))

\* The redo of the chain ending at the newest version at or below L: the
\* nearest image at or below it with the deltas stored after it applied.
ExpectedPage(st, rel, blknum, L) ==
    LET ls == {l \in PageLsns(st, rel, blknum) : l <= L}
        base == MaxOf({l \in ls : VersionAt(st, rel, blknum, l).ty = "Image"})
    IN ChainRedo(st, rel, blknum, {l \in ls : l > base},
                 VersionAt(st, rel, blknum, base).img)

\* C2: for a page whose rows were written by put_page_image / put_wal_record
\* at increasing LSNs starting with an image, and any published query LSN L
\* at or above the first row, get_page_at_lsn(e, b, L) returns the redo of
\* the chain ending at the newest version at or below L.
C2_ReverseVisibility ==
    \A t \in TimelineIds, rel \in Rels, blknum \in Blknums, L \in QueryLsns :
       (/\ Published(t, L)
        /\ WrittenByPuts(store[t], rel, blknum)
        /\ StartsWithImage(store[t], rel, blknum)
        /\ \E l \in PageLsns(store[t], rel, blknum) : l <= L)
       => GetPageAtLsn(t, rel, blknum, L) =
             Ok(ExpectedPage(store[t], rel, blknum, L))

\* An image with two deltas above it, read at the newest delta and in
\* between the image and the first delta.
C2_Witness ==
    \E t \in TimelineIds, blknum \in Blknums, img \in Images :
       /\ Published(t, 8 * MaxLsn)
       /\ PageLsns(store[t], RelA, blknum) = {8, 16, 8 * MaxLsn}
       /\ HoldsVersion(t, RelA, blknum, 8, PvImage(img))
       /\ \A l \in {16, 8 * MaxLsn} :
             \E rec \in WalRecords : HoldsVersion(t, RelA, blknum, l, PvDelta(rec))
       /\ GetPageAtLsn(t, RelA, blknum, 8 * MaxLsn) = Ok(img \o <<1, 1>>)
       /\ GetPageAtLsn(t, RelA, blknum, UnalignedLsn) = Ok(img)

RECURSIVE Ascending(_)
Ascending(S) ==
    IF S = {} THEN <<>> ELSE <<MinOf(S)>> \o Ascending(S \ {MinOf(S)})

\* Row W of the page is an initializing delta and the rows above it up to L
\* are deltas that do not initialize.
InitChain(st, rel, blknum, W, L) ==
    /\ W <= L
    /\ W \in PageLsns(st, rel, blknum)
    /\ \A l \in PageLsns(st, rel, blknum) :
          (W <= l /\ l <= L) =>
             /\ st[DataKey(rel, blknum, l)].enc = "PageVersion"
             /\ VersionAt(st, rel, blknum, l).ty = "Delta"
             /\ VersionAt(st, rel, blknum, l).rec.will_init = (l = W)

\* C3: when the page has an initializing delta at W and only
\* non-initializing deltas in (W, L], get_page_at_lsn(e, b, L) hands the
\* redo collaborator no base image and exactly the records stored at the
\* LSNs in [W, L] in increasing LSN order, the initializing record first.
C3_WillInitStopsChain ==
    \A t \in TimelineIds, rel \in Rels, blknum \in Blknums, W \in Lsns,
       L \in QueryLsns :
       (Published(t, L) /\ InitChain(store[t], rel, blknum, W, L)) =>
          LET r == LookupPage(store[t], rel, blknum, L)
              ls == Ascending({l \in PageLsns(store[t], rel, blknum) :
                                 W <= l /\ l <= L})
          IN /\ r.ok /\ r.v.kind = "Redo"
             /\ r.v.data.page_img = None
             /\ LET recs == Reverse(r.v.data.records) IN
                /\ Len(recs) = Len(ls)
                /\ \A i \in 1 .. Len(ls) :
                      recs[i][2] = VersionAt(store[t], rel, blknum, ls[i]).rec
                /\ recs[1][2].will_init
                /\ GetPageAtLsn(t, rel, blknum, L) = RequestRedo(None, recs)

\* An image, an initializing delta above it and a further delta, read at
\* the newest delta.
C3_Witness ==
    \E t \in TimelineIds, blknum \in Blknums, img \in Images :
       /\ Published(t, 8 * MaxLsn)
       /\ HoldsVersion(t, RelA, blknum, 8, PvImage(img))
       /\ InitChain(store[t], RelA, blknum, 16, 8 * MaxLsn)
       /\ 8 * MaxLsn \in PageLsns(store[t], RelA, blknum)
       /\ GetPageAtLsn(t, RelA, blknum, 8 * MaxLsn) = Ok(<<3, 3, 1>>)

\* The LSNs at which timeline rows of the metadata of rel exist.
MetadataLsns(st, rel) ==
    {k[3] : k \in {j \in DOMAIN st : j[1] = MetadataTag /\ j[2] = rel}}

\* The newest metadata row of rel is the tombstone a drop_relish(rel, lsn_d)
\* put: the entity was dropped at lsn_d and no later write re-created it.
DroppedAt(st, rel, lsn_d) ==
    /\ lsn_d \in MetadataLsns(st, rel)
    /\ st[MetadataKey(rel, lsn_d)] = SerMetadataValue([size |-> None])
    /\ \A l \in MetadataLsns(st, rel) : l <= lsn_d

TombstoneHides(rels) ==
    \A t \in TimelineIds, rel \in rels, lsn_d \in Lsns, L \in QueryLsns :
       (Published(t, L) /\ L >= lsn_d /\ DroppedAt(store[t], rel, lsn_d)) =>
          /\ GetRelishSize(t, rel, L) = Ok(None)
          /\ GetRelExists(t, rel, L) = Ok(FALSE)

DropKeepsPast(rels) ==
    \A t \in TimelineIds, rel \in rels, lsn_d \in Lsns :
       (/\ DropRelish(t, rel, lsn_d)
        /\ DropRelishOutcome(store[t], meta[t], disk_consistent_lsn[t],
                             rel, lsn_d).res.ok) =>
          \A L \in QueryLsns :
             (Published(t, L) /\ L < lsn_d) =>
                /\ GetRelishSize(t, rel, L)' = GetRelishSize(t, rel, L)
                /\ GetRelExists(t, rel, L)' = GetRelExists(t, rel, L)

C5_TombstoneHidesData ==
    \A t \in TimelineIds, rel \in Rels, blknum \in Blknums, lsn_d \in Lsns,
       L \in QueryLsns :
       (/\ Published(t, L) /\ L >= lsn_d
        /\ DroppedAt(store[t], rel, lsn_d)
        /\ \A l \in PageLsns(store[t], rel, blknum) : l < lsn_d) =>
          ~GetPageAtLsn(t, rel, blknum, L).ok

\* child was branched from parent at LSN S.
BranchedFrom(child, parent, S) ==
    /\ file[child].some
    /\ file[child].v.ancestor_timeline = Some(parent)
    /\ file[child].v.ancestor_lsn = S

\* C6: for a child timeline branched from a parent at S, every
\* get_page_at_lsn(e, b, L) on the child with L <= S for which the child's
\* own store holds no row of (e, b) at or below L returns what
\* get_page_at_lsn(e, b, L) returns on the parent.
C6_BranchInheritance ==
    \A child \in BranchIds, parent \in RootIds, S \in BranchLsns,
       rel \in Rels, blknum \in Blknums, L \in QueryLsns :
       (/\ BranchedFrom(child, parent, S)
        /\ L <= S
        /\ Published(child, L) /\ Published(parent, L)
        /\ \A l \in PageLsns(store[child], rel, blknum) : l > L) =>
          GetPageAtLsn(child, rel, blknum, L) =
             GetPageAtLsn(parent, rel, blknum, L)

\* Some writer call on timeline t that changes its rows, at an LSN in lsns.
WriterCall(t, lsns) ==
    /\ store'[t] # store[t]
    /\ \E lsn \in lsns, rel \in Rels :
          \/ \E blknum \in Blknums :
                \/ \E rec \in WalRecords :
                      PutWalRecord(t, lsn, rel, blknum, rec)
                \/ \E img \in Images : PutPageImage(t, rel, blknum, lsn, img)
                \/ PutTruncation(t, rel, lsn, blknum)
          \/ DropRelish(t, rel, lsn)

\* Every get_page_at_lsn and get_relish_size on timeline t returns after
\* the step what it returned before it (as it does when the step leaves the
\* rows and the cache of t as they were).
ReadsUnchanged(t) ==
    \/ store'[t] = store[t] /\ meta'[t] = meta[t]
    \/ \A rel \in Rels, L \in QueryLsns :
          /\ GetRelishSize(t, rel, L)' = GetRelishSize(t, rel, L)
          /\ \A blknum \in Blknums :
                GetPageAtLsn(t, rel, blknum, L)' =
                   GetPageAtLsn(t, rel, blknum, L)

\* C7: after branch_timeline(T, C, S), a writer call on C changes the
\* result of no get_page_at_lsn or get_relish_size on T, and a writer call
\* on T at an LSN above S changes the result of no read on C.
C7_BranchIndependence ==
    [][\A child \in BranchIds, parent \in RootIds, S \in BranchLsns :
          BranchedFrom(child, parent, S) =>
             /\ WriterCall(child, Lsns) => ReadsUnchanged(parent)
             /\ WriterCall(parent, {l \in Lsns : l > S}) =>
                   ReadsUnchanged(child)]_vars

\* Both timelines hold rows of the same page: the parent one written above
\* the branch point, the child one a different version at the same LSN.
C7_Witness ==
    \E child \in BranchIds, parent \in RootIds, S \in BranchLsns,
       lsn \in Lsns, blknum \in Blknums :
       /\ BranchedFrom(child, parent, S)
       /\ child \in open /\ parent \in open
       /\ lsn > S
       /\ lsn \in PageLsns(store[child], RelA, blknum)
       /\ lsn \in PageLsns(store[parent], RelA, blknum)
       /\ store[child][DataKey(RelA, blknum, lsn)] #
             store[parent][DataKey(RelA, blknum, lsn)]

\* C8: with no writes in between, every get_page_at_lsn(e, b, L) with
\* L <= last_record_lsn returns after a checkpoint() what it returned before
\* it (and so after a second checkpoint() too).
C8_CheckpointKeepsReads ==
    [][\A t \in TimelineIds :
          Checkpoint(t, 0) =>
             \A rel \in Rels, blknum \in Blknums, L \in QueryLsns :
                Published(t, L) =>
                   GetPageAtLsn(t, rel, blknum, L)' =
                      GetPageAtLsn(t, rel, blknum, L)]_vars

\* Row k of the store holds a Delta.
IsDeltaRow(st, k) ==
    k[1] = DataTag /\ st[k].enc = "PageVersion" /\ st[k].v.ty = "Delta"

\* C9 (as stated): checkpoint_internal removes or replaces no Delta row:
\* every Data key that held a Delta before the checkpoint holds the same
\* Delta after it.
C9_DeltasKept ==
    [][\A t \in TimelineIds, dist \in CheckpointDistances :
          Checkpoint(t, dist) =>
             \A k \in DOMAIN store[t] :
                IsDeltaRow(store[t], k) =>
                   k \in DOMAIN store'[t] /\ store'[t][k] = store[t][k]]_vars

\* C9 (amended): checkpoint_internal, run with no writer call during it,
\* adds and removes no key; the only rows whose value it changes are Data
\* rows that held a Delta and were the newest version of their page; every
\* other row (older Deltas, Images, Metadata) keeps its value.
C9_OnlyTopDeltaReplaced ==
    [][\A t \in TimelineIds, dist \in CheckpointDistances :
          Checkpoint(t, dist) =>
             /\ DOMAIN store'[t] = DOMAIN store[t]
             /\ \A k \in DOMAIN store[t] :
                   store'[t][k] # store[t][k] =>
                      /\ IsDeltaRow(store[t], k)
                      /\ k[4] = MaxOf(PageLsns(store[t], k[2], k[3]))]_vars

\* A checkpoint has put a page at the top of a chain of two Deltas: the
\* older Delta is still there.
C9_Witness ==
    \E t \in TimelineIds, blknum \in Blknums, rec \in WalRecords :
       /\ t \in open
       /\ PageLsns(store[t], RelA, blknum) = {8, 16}
       /\ store[t][DataKey(RelA, blknum, 16)].enc = "Bytes"
       /\ HoldsVersion(t, RelA, blknum, 8, PvDelta(rec))

\* Some put_wal_record / put_page_image call on block blknum of rel at lsn
\* that returns Ok.
PutOfBlock(t, rel, blknum, lsn) ==
    \/ \E rec \in WalRecords :
          /\ PutWalRecord(t, lsn, rel, blknum, rec)
          /\ PutPageVersion(store[t], meta[t], disk_consistent_lsn[t], lsn, rel,
                            blknum, PvDelta(rec)).res.ok
    \/ \E img \in Images :
          /\ PutPageImage(t, rel, blknum, lsn, img)
          /\ PutPageVersion(store[t], meta[t], disk_consistent_lsn[t], lsn, rel,
                            blknum, PvImage(img)).res.ok

\* get_relish_size(rel, lsn) on t returns Some(s) with s >= n.
SizeAtLeast(t, rel, lsn, n) ==
    LET r == GetRelishSize(t, rel, lsn) IN r.ok /\ r.v.some /\ r.v.v >= n

WriterCallAt(t, lsn) ==
    \E rel \in Rels :
       \/ \E blknum \in Blknums :
             \/ \E rec \in WalRecords : PutWalRecord(t, lsn, rel, blknum, rec)
             \/ \E img \in Images : PutPageImage(t, rel, blknum, lsn, img)
             \/ PutTruncation(t, rel, lsn, blknum)
       \/ DropRelish(t, rel, lsn)

\* C11: a put_wal_record, put_page_image, put_truncation or drop_relish call
\* with an LSN that is not 8-byte aligned leaves the store rows, the
\* metadata snapshot cache and disk_consistent_lsn as they were.
C11_UnalignedRejected ==
    [][\A t \in TimelineIds, lsn \in {l \in Lsns : ~IsAligned(l)} :
          WriterCallAt(t, lsn) =>
             /\ store'[t] = store[t]
             /\ meta'[t] = meta[t]
             /\ disk_consistent_lsn'[t] = disk_consistent_lsn[t]]_vars

\* C12: in every reachable state of a timeline (after creation, branching
\* and load, and after each writer operation), disk_consistent_lsn is at
\* most last_record_lsn.
C12_DiskConsistentBelowLast ==
    \A t \in TimelineIds :
       t \in open => disk_consistent_lsn[t] <= last_record_lsn[t].last

\* C13: a wait_lsn(lsn) call that returned Ok returned with last_record_lsn
\* at or past lsn, and one that returned the timeout error returned when
\* TIMEOUT seconds had passed with last_record_lsn below lsn.
C13_WaitLsnResult ==
    \A w \in Readers :
       waiters[w].pc = "returned" =>
          IF waiters[w].res.ok
          THEN waiters[w].at >= waiters[w].lsn
          ELSE /\ waiters[w].res = Err("Timeout")
               /\ waiters[w].waited >= TIMEOUT
               /\ waiters[w].at < waiters[w].lsn

\* One reader was blocked and then let through by an advance, the other
\* timed out on a higher LSN.
C13_Witness ==
    \E w1, w2 \in Readers :
       /\ waiters[w1].pc = "returned" /\ waiters[w1].res.ok
       /\ waiters[w1].waited > 0
       /\ waiters[w2].pc = "returned" /\ ~waiters[w2].res.ok
       /\ waiters[w2].lsn > waiters[w1].lsn

\* Reader w is inside a wait_lsn call.
InWaitLsn(w) == waiters[w].pc \in {"waiting", "woken"}

\* C14: every wait_lsn call eventually returns; an advance_last_record_lsn(n)
\* wakes every blocked waiter of the timeline whose target is at or below n,
\* and a woken waiter returns Ok; a waiter that no advance woke returns the
\* timeout error.
C14_WaitLsnReturns ==
    /\ \A w \in Readers : InWaitLsn(w) ~> (waiters[w].pc = "returned")
    /\ \A w \in Readers :
          (waiters[w].pc = "woken") ~>
             (waiters[w].pc = "returned" /\ waiters[w].res.ok)
    /\ [][\A t \in TimelineIds, n \in Lsns :
             AdvanceLastRecordLsn(t, n) =>
                \A w \in Readers :
                   (/\ waiters[w].pc = "waiting"
                    /\ waiters[w].t = t
                    /\ waiters[w].lsn <= n) => waiters'[w].pc = "woken"]_vars
    /\ [][\A w \in Readers :
             (waiters[w].pc = "waiting" /\ waiters'[w].pc = "returned") =>
                waiters'[w].res = Err("Timeout")]_vars

\* Two readers blocked on different LSNs have both returned Ok.
C14_Witness ==
    \E w1, w2 \in Readers :
       /\ waiters[w1].pc = "returned" /\ waiters[w1].res.ok
       /\ waiters[w2].pc = "returned" /\ waiters[w2].res.ok
       /\ waiters[w1].waited > 0 /\ waiters[w2].waited > 0
       /\ waiters[w1].lsn < waiters[w2].lsn

\* The rows of every record taken from the stream at or below lsn are in
\* the store of t.
RowsVisible(t, lsn) ==
    \A r \in ingest.begun : r.lsn <= lsn => r.rows \subseteq DOMAIN store[t]

\* C15: the rows of the ingested record at LSN L are in the store before
\* advance_last_record_lsn(L) publishes L: in every reachable state the rows
\* of each record at or below last_record_lsn are in the store, and they
\* are for a reader whose wait_lsn(L) returned Ok, for every record at or
\* below L.
C15_RowsBeforePublish ==
    \A t \in RootIds :
       /\ RowsVisible(t, last_record_lsn[t].last)
       /\ \A w \in Readers :
             (/\ waiters[w].pc = "returned" /\ waiters[w].res.ok
              /\ waiters[w].t = t) => RowsVisible(t, waiters[w].lsn)

\* A record of two rows at 16 was ingested after a record at 8, and a
\* reader that was blocked on 16 has returned Ok.
C15_Witness ==
    \E t \in RootIds, w \in Readers :
       /\ waiters[w].pc = "returned" /\ waiters[w].res.ok
       /\ waiters[w].t = t /\ waiters[w].lsn = 16 /\ waiters[w].waited > 0
       /\ \E r \in ingest.begun :
             r.lsn = 16 /\ r.rows = {DataKey(RelA, 0, 16), DataKey(RelA, MaxBlk, 16)}
       /\ \E r \in ingest.begun : r.lsn = 8
       /\ ingest.pc = "idle"

\* The position checkpoint_internal is in when it has collected, from the
\* rows st, the chain of the version that key holds.
ChainOf(st, key, dist) ==
    ScanStep(st, [pc |-> "scan", dist |-> dist,
                  till |-> DataKey(key[2], key[3], key[4] + 1)])

\* C16: between the moment the checkpointer has collected a delta chain and
\* the moment it puts the materialized page, no writer operation changes
\* the store of the timeline, and the page put at key (e, b, L) is the
\* reconstruction of the version that key holds when it is put.
C16_CheckpointExcludesWriter ==
    [][\A t \in TimelineIds :
          /\ (ckpt[t].pc = "put" /\ ckpt'[t] = ckpt[t]) => store'[t] = store[t]
          /\ (ckpt[t].pc = "put" /\ CheckpointPut(t)) =>
                LET c == ChainOf(store[t], ckpt[t].key, 0) IN
                /\ c.pc = "put"
                /\ c.key = ckpt[t].key
                /\ store'[t] = PutStep(store[t], c).st]_vars

\* The metadata file of t has been written and fsynced.
Durable(t) == file[t].some /\ ~(branch.pc = "sync" /\ branch.dst = t)

\* C17: under every interleaving of branch_timeline(src, dst, S) with
\* get_timeline(dst) calls, a get_timeline(dst) that returns a handle finds
\* the metadata file of dst written and fsynced.
C17_HandleAfterDurable ==
    [][\A dst \in BranchIds :
          (GetTimeline(dst) /\ dst \in open') => Durable(dst)]_vars

\* The metadata file, the store and the registry entry of t are after the
\* step what they were before it.
TimelineKept(t) ==
    /\ file'[t] = file[t]
    /\ store'[t] = store[t]
    /\ (t \in open') = (t \in open)

\* C20: create_empty_timeline(id) and branch_timeline(src, dst, S) fail when
\* the directory of the destination timeline exists already, and leave the
\* metadata file, the store and the registry entry of that timeline as they
\* were.
C20_ExistingTimelineKept ==
    [][\A t \in TimelineIds :
          /\ (DirExists(t) /\ CreateEmptyTimeline(t)) => TimelineKept(t)
          /\ (/\ branch.pc \in {"open", "write"} /\ branch.dst = t
              /\ branch.existed
              /\ BranchOpen \/ BranchWrite) => TimelineKept(t)]_vars

\* C18: while gc_iteration holds the registry lock no timeline appears, and
\* every branch point that is on disk when gc_timeline runs for a timeline
\* is among the retain LSNs passed to it.
C18_NoTimelineDuringSweep ==
    [][/\ (gc.pc = "sweep" /\ gc'.pc = "sweep") =>
             \A t \in TimelineIds : DirExists(t)' = DirExists(t)
       /\ \A t \in TimelineIds :
             (GcSweep(t) /\ Cutoff(t).some) =>
                \A child \in TimelineIds, S \in BranchLsns :
                   BranchedFrom(child, t, S) => S \in RetainLsns(t)]_vars

\* C19: gc_iteration changes the result of no get_page_at_lsn(e, b, L) and
\* no get_relish_size(e, L) on a swept timeline for L at or above the
\* cutoff last_record_lsn - horizon, nor for L the ancestor_lsn of a child
\* timeline branched from it.
C19_GcKeepsReads ==
    [][\A t \in TimelineIds :
          GcSweep(t) =>
             \A rel \in Rels, L \in QueryLsns :
                (/\ Published(t, L)
                 /\ \/ L >= last_record_lsn[t].last - gc.horizon
                    \/ \E child \in TimelineIds : BranchedFrom(child, t, L)) =>
                   /\ GetRelishSize(t, rel, L)' = GetRelishSize(t, rel, L)
                   /\ \A blknum \in Blknums :
                         GetPageAtLsn(t, rel, blknum, L)' =
                            GetPageAtLsn(t, rel, blknum, L)]_vars

\* What get_timeline(t) returns: the handle in the map, or one made by
\* BufferedTimeline::new from the metadata file of t once it and the files
\* of its ancestors have loaded.
GetTimelineHandle(t) ==
    IF t \in open
    THEN Ok([ancestor_timeline |-> file[t].v.ancestor_timeline,
             ancestor_lsn |-> file[t].v.ancestor_lsn,
             last_record_lsn |-> last_record_lsn[t],
             disk_consistent_lsn |-> disk_consistent_lsn[t]])
    ELSE IF \A u \in ToLoad(t, open) : CanLoad(u)
    THEN Ok([ancestor_timeline |-> file[t].v.ancestor_timeline,
             ancestor_lsn |-> file[t].v.ancestor_lsn,
             last_record_lsn |-> NewRecordLsn(file[t].v),
             disk_consistent_lsn |-> file[t].v.disk_consistent_lsn])
    ELSE Err("LoadMetadata")

\* C21: after a branch_timeline(src, dst, S) that returned Ok, having
\* written the metadata file of dst, get_timeline(dst) succeeds with a
\* timeline of ancestor src, ancestor_lsn = S, last_record_lsn =
\* disk_consistent_lsn = S, and the prev record LSN of src when S is the
\* last_record_lsn src had at the branch, 0 otherwise.
C21_BranchThenGet ==
    [][\A src \in RootIds, dst \in BranchIds, S \in BranchLsns :
          (BranchTimeline(src, dst, S) /\ file'[dst] # file[dst]) =>
             LET h == GetTimelineHandle(dst)'
                 src_rlsn == last_record_lsn'[src]
             IN
             /\ h.ok
             /\ h.v.ancestor_timeline = Some(src)
             /\ h.v.ancestor_lsn = S
             /\ h.v.last_record_lsn.last = S
             /\ h.v.disk_consistent_lsn = S
             /\ h.v.last_record_lsn.prev =
                   (IF S = src_rlsn.last THEN src_rlsn.prev ELSE 0)]_vars

\* C22: load_metadata of a file written by save_metadata returns the
\* saved TimelineMetadata, and fails with an error when the file is not
\* 512 bytes long or a byte of the payload or of the checksum has changed.
C22_MetadataRoundTrip ==
    metadata_file.loaded.some =>
       IF metadata_file.damage = "none"
       THEN metadata_file.loaded.v = Ok(metadata_file.data.v)
       ELSE /\ ~metadata_file.loaded.v.ok
            /\ "err" \in DOMAIN metadata_file.loaded.v

\* The timeline t and its ancestors.
RECURSIVE WithAncestors(_)
WithAncestors(t) ==
    {t} \cup (IF file[t].some /\ file[t].v.ancestor_timeline.some
              THEN WithAncestors(file[t].v.ancestor_timeline.v) ELSE {})

\* No timeline of ts holds a Data row of (rel, blknum) with an LSN <= L.
NoDataRow(ts, rel, blknum, L) ==
    \A u \in ts : \A l \in PageLsns(store[u], rel, blknum) : l > L

\* C23 as stated: get_page_at_lsn(e, b, L) with L <= last_record_lsn fails
\* with the not-found error whenever the timeline and its ancestors hold no Data row of (e, b) with
\* an LSN <= L.
C23_NotFoundAlways ==
    \A t \in open, rel \in Rels, blknum \in Blknums, L \in QueryLsns :
       (Published(t, L) /\ NoDataRow(WithAncestors(t), rel, blknum, L)) =>
          GetPageAtLsn(t, rel, blknum, L) = Err("NotFound")

\* C23: when the timeline and its ancestors hold no Data row of (e, b) with
\* an LSN <= L <= last_record_lsn, get_page_at_lsn(e, b, L) returns no
\* page: it fails with
\* the invalid-request error for a block other than 0 of an entity that is
\* not blocky, and with the not-found error otherwise.
C23_NoRowNoPage ==
    \A t \in open, rel \in Rels, blknum \in Blknums, L \in QueryLsns :
       (Published(t, L) /\ NoDataRow(WithAncestors(t), rel, blknum, L)) =>
          GetPageAtLsn(t, rel, blknum, L) =
             (IF ~IsBlocky(rel) /\ blknum # 0 THEN Err("InvalidRequest")
              ELSE Err("NotFound"))

\* A page whose only versions, on a branch and on its ancestor, are above
\* the request LSN.
C23_Witness ==
    \E t \in open, blknum \in Blknums, L \in QueryLsns :
       /\ WithAncestors(t) # {t}
       /\ Published(t, L)
       /\ NoDataRow(WithAncestors(t), RelA, blknum, L)
       /\ \A u \in WithAncestors(t) : PageLsns(store[u], RelA, blknum) # {}
       /\ GetPageAtLsn(t, RelA, blknum, L) = Err("NotFound")

\* The records and the base image of data are versions stored under
\* (rel, blknum) in st.
SameBlockChain(st, rel, blknum, data) ==
    /\ \A i \in DOMAIN data.records :
          \E l \in PageLsns(st, rel, blknum) :
             VersionAt(st, rel, blknum, l) = PvDelta(data.records[i][2])
    /\ data.page_img.some =>
          \E l \in PageLsns(st, rel, blknum) :
             VersionAt(st, rel, blknum, l) = PvImage(data.page_img.v)

\* No version of (rel, blknum) at or below L is an Image or a will_init
\* Delta.
NoBase(st, rel, blknum, L) ==
    \A l \in PageLsns(st, rel, blknum) :
       l <= L => LET ver == VersionAt(st, rel, blknum, l) IN
                 ver.ty = "Delta" /\ ~ver.rec.will_init

\* C24: the chain get_page_at_lsn and checkpoint_internal collect for an
\* (entity, block) holds only versions stored under that (entity, block),
\* and when that (entity, block) has no Image and no will_init Delta the
\* operation fails with an error.
C24_ChainWithinBlock ==
    \A t \in open :
       /\ \A rel \in Rels, blknum \in Blknums, L \in QueryLsns :
             LET r == LookupPage(store[t], rel, blknum, L) IN
             /\ (r.ok /\ r.v.kind = "Redo") =>
                   SameBlockChain(store[t], rel, blknum, r.v.data)
             /\ NoBase(store[t], rel, blknum, L) => ~r.ok
       /\ ckpt[t].pc = "scan" =>
             LET r == RangeExcl(store[t], CheckpointFrom, ckpt[t].till)
                 c == ScanStep(store[t], ckpt[t])
             IN r # {} =>
                LET key == MaxKey(r) IN
                /\ c.pc = "put" =>
                      SameBlockChain(store[t], key[2], key[3], c.data)
                /\ NoBase(store[t], key[2], key[3], key[4]) =>
                      (c.pc = "done" /\ ~c.ok)

MetadataLsnsUpTo(st, rel, lsn) ==
    {k[3] : k \in {j \in DOMAIN st :
                      j[1] = MetadataTag /\ j[2] = rel /\ j[3] <= lsn}}

\* The newest Metadata row of rel at or below lsn exists and holds a size.
ExistsAt(st, rel, lsn) ==
    /\ MetadataLsnsUpTo(st, rel, lsn) # {}
    /\ st[MetadataKey(rel, MaxOf(MetadataLsnsUpTo(st, rel, lsn)))].v.size.some

\* C26: list_rels(spcnode, dbnode, lsn) returns exactly the relations of
\* that tablespace and database whose newest Metadata row with an LSN <=
\* lsn exists and is not a tombstone.
C26_ListRelsExact ==
    \A t \in open, d \in Databases, lsn \in QueryLsns :
       ListRels(t, d, lsn) =
          Ok({rel \in RelationsOf(d) : ExistsAt(store[t], rel, lsn)})

\* A relation of database 1 is listed at an LSN below its newest row and
\* is not listed at the LSN of that row, where it was dropped; at both, a
\* relation of database 2 is listed for database 2 only.
C26_Witness ==
    \E t \in open, r1 \in RelationsOf(1), r3 \in RelationsOf(2) :
       \E lsn1 \in Lsns, lsn2 \in Lsns :
          /\ lsn1 < lsn2
          /\ MetadataKey(r1, lsn2) \in DOMAIN store[t]
          /\ ListRels(t, 1, lsn1) = Ok({r1})
          /\ ListRels(t, 1, lsn2) = Ok({})
          /\ ListRels(t, 2, lsn1) = Ok({r3})

\* The WAL receiver threads that ingest into the timeline of key.
Ingesting(key) ==
    {id \in ThreadIds : threads[id].pc = "streaming" /\ threads[id].key = key}

\* C27: at most one WAL receiver thread ingests into a timeline at any
\* time, and WAL_RECEIVERS holds at most one entry per timeline.
C27_OneReceiver ==
    \A key \in TimelineIds :
       /\ Cardinality(Ingesting(key)) <= 1
       /\ Cardinality(ReceiverEntries(wal_receivers, key)) <= 1

\* A second thread ingests into a timeline after the first one has left,
\* and a launch for that timeline has found the entry of the second.
C27_Witness ==
    \E key \in TimelineIds, id \in ThreadIds :
       /\ Ingesting(key) = {id}
       /\ \E old \in ThreadIds :
             old < id /\ threads[old].pc = "exited" /\ threads[old].key = key
       /\ \E e \in wal_receivers :
             e.key = key /\ e.thread_id = id /\ e.wal_producer_connstr = "host=b"

\* C28: every call of a VirtualFile returns what the same call of a
\* std::fs::File returns and leaves the VirtualFile at the position of the
\* File, however often its descriptor was evicted and reopened.
C28_SameAsFile ==
    \A vf \in VFileIds :
       /\ results[vf] # None => results[vf].v.virtual = results[vf].v.std
       /\ vfiles[vf] # None /\ std_files[vf] # None =>
             vfiles[vf].v.pos = std_files[vf].v.pos

\* The physical file descriptors that are open: the Files in the slots and
\* the Files that threads have opened and not yet stored.
OpenFds ==
    Cardinality({i \in DOMAIN open_files.v.slots :
                    open_files.v.slots[i].file # None})
    + Cardinality({th \in VThreadIds : vthreads[th].file # None})

\* C29: at no time are more physical file descriptors open than init was
\* given slots.
C29_FdsWithinSlots == open_files # None => OpenFds <= NumSlots

\* With two slots, both descriptors are open while a thread stores a File
\* in a slot it has evicted another File from, and a third VirtualFile is
\* closed.
C29_Witness ==
    /\ open_files # None
    /\ NumSlots = 2
    /\ OpenFds = 2
    /\ \A vf \in VFileIds : vfiles[vf] # None
    /\ \E th \in VThreadIds :
          /\ vthreads[th].pc = "store"
          /\ vthreads[th].op.kind # "open"

\* C30 as stated: wait_for_lsn(lsn) returns Some(c) only if c is the
\* notified commit LSN at the time of return and c >= lsn, and None only if
\* the poll timeout expired while the notified commit LSN was below lsn.
C30_NoneOnlyBelow ==
    \A w \in WalSenders :
       wal_senders[w].pc = "returned" =>
          IF wal_senders[w].res # None
          THEN /\ wal_senders[w].res.v = wal_senders[w].at_return
               /\ wal_senders[w].res.v >= wal_senders[w].lsn
          ELSE /\ wal_senders[w].expired
               /\ wal_senders[w].expired_at < wal_senders[w].lsn

\* C30 as the code has it: wait_for_lsn(lsn) returns Some(c) only if c is
\* the notified commit LSN at the time of return and c > lsn, and None only
\* if the poll timeout expired in a wait that began when the notified
\* commit LSN was at most lsn.
C30_WaitForLsn ==
    \A w \in WalSenders :
       wal_senders[w].pc = "returned" =>
          IF wal_senders[w].res # None
          THEN /\ wal_senders[w].res.v = wal_senders[w].at_return
               /\ wal_senders[w].res.v > wal_senders[w].lsn
          ELSE /\ wal_senders[w].expired
               /\ wal_senders[w].seen <= wal_senders[w].lsn

\* One WAL sender has got a commit LSN, another has got None after a
\* timeout that expired when the notified commit LSN was above its LSN.
C30_Witness ==
    /\ wal_senders["s1"].pc = "returned"
    /\ wal_senders["s1"].res = Some(16)
    /\ wal_senders["s1"].lsn = 8
    /\ wal_senders["s2"].pc = "returned"
    /\ wal_senders["s2"].res = None
    /\ wal_senders["s2"].expired_at > wal_senders["s2"].lsn

\* C39: a seek of a VirtualFile that fails, from the current position or
\* from the end, returns an error and leaves the position where it was, and
\* the read that follows reads from that position.
C39_FailedSeekKeepsPos ==
    [][\A vf \in VFileIds :
          /\ vfiles[vf] # None /\ vfiles'[vf] # None /\ results'[vf] # None
             /\ results'[vf].v.call = "seek" /\ ~results'[vf].v.virtual.ok
             /\ (results'[vf] # results[vf] \/ nops' # nops
                   \/ vthreads' # vthreads)
             => vfiles'[vf].v.pos = vfiles[vf].v.pos
          /\ vfiles[vf] # None /\ vfiles'[vf] # None /\ results[vf] # None
             /\ results[vf].v.call = "seek" /\ ~results[vf].v.virtual.ok
             /\ results'[vf] # None /\ results'[vf].v.call = "read"
             /\ results'[vf].v.virtual.ok
             => vfiles'[vf].v.pos =
                   vfiles[vf].v.pos + Len(results'[vf].v.virtual.v)]_vars

\* A seek has failed at position 1 and the position is still 1.
C39_Witness ==
    \E vf \in VFileIds :
       /\ vfiles[vf] # None /\ results[vf] # None
       /\ results[vf].v.call = "seek"
       /\ results[vf].v.virtual = Err("InvalidInput")
       /\ vfiles[vf].v.pos = 1

\* The slot the handle of the virtual file vf points to.
SlotOf(vf) == open_files.v.slots[vfiles[vf].v.handle.index]

\* The slot still holds the File of the virtual file vf: with_file uses it,
\* and Drop closes it.
HoldsFile(vf) ==
    /\ vfiles[vf] # None
    /\ SlotOf(vf).tag = vfiles[vf].v.handle.tag
    /\ SlotOf(vf).file # None

\* C37: the File that with_file uses and that Drop closes for a VirtualFile
\* was opened from the path and with the options of that VirtualFile, and
\* belongs to no other VirtualFile.
C37_OwnDescriptor ==
    \A vf \in VFileIds :
       HoldsFile(vf) =>
          /\ SlotOf(vf).file.v.path = vfiles[vf].v.path
          /\ ReopenOptions(SlotOf(vf).file.v.open_options) =
                vfiles[vf].v.open_options
          /\ \A other \in VFileIds \ {vf} :
                vfiles[other] # None =>
                   vfiles[other].v.handle # vfiles[vf].v.handle

\* The slot of a VirtualFile has been recycled for a file of another path,
\* and a VirtualFile whose slot had been recycled has been read through a
\* File that was opened again.
C37_Witness ==
    /\ \E vf \in VFileIds :
          /\ vfiles[vf] # None
          /\ ~HoldsFile(vf)
          /\ SlotOf(vf).file # None
          /\ SlotOf(vf).file.v.path # vfiles[vf].v.path
    /\ \E vf \in VFileIds :
          /\ HoldsFile(vf)
          /\ results[vf] # None /\ results[vf].v.call = "read_at"
          /\ vfiles[vf].v.handle.tag > 1

\* C38: no thread is ever left in a with_file call that cannot return: none
\* waits for a lock it holds itself, or panics on it.
C38_NoDeadlock ==
    \A th \in VThreadIds : vthreads[th].pc \notin {"deadlocked", "panicked"}

\* C35: a launch_wal_receiver call that finds an entry and only updates its
\* connection string finds the entry of a thread that streams or is about
\* to, never the entry of a thread that has stopped streaming.
C35_LaunchNeverAbsorbed ==
    [][\A e \in wal_receivers, f \in wal_receivers' :
          /\ e.key = f.key /\ e.thread_id = f.thread_id
          /\ e.wal_producer_connstr # f.wal_producer_connstr
          => threads[e.thread_id].pc \in {"spawned", "streaming"}]_vars

\* The first n calls of next have returned the first n blocks.
ReturnedBlocks(it) ==
    \A i \in 1 .. Len(it.returned) :
       IF i <= Cardinality(DOMAIN page_versions)
       THEN /\ it.returned[i] # None
            /\ it.returned[i].v[1] \in DOMAIN page_versions
            /\ it.returned[i].v[2] = page_versions[it.returned[i].v[1]]
            /\ \A j \in 1 .. i - 1 : it.returned[j].v[1] < it.returned[i].v[1]
       ELSE it.returned[i] = None

\* C31: ordered_block_iter yields every block of the PageVersions once, in
\* strictly ascending block order, each with its versions in ascending LSN
\* order as they were appended, and None on every call after the last block.
C31_OrderedBlockIter ==
    /\ \A b \in DOMAIN page_versions :
          \A i, j \in 1 .. Len(page_versions[b]) :
             i < j => page_versions[b][i][1] < page_versions[b][j][1]
    /\ block_iter # None =>
          /\ ReturnedBlocks(block_iter.v)
          /\ Len(block_iter.v.returned) >= Cardinality(DOMAIN page_versions) =>
                {block_iter.v.returned[i].v[1] :
                    i \in 1 .. Cardinality(DOMAIN page_versions)}
                = DOMAIN page_versions

\* All three blocks have been returned, one of them with two versions, and
\* None twice after them.
C31_Witness ==
    /\ block_iter # None
    /\ DOMAIN page_versions = 0 .. MaxPvBlk
    /\ Len(page_versions[1]) = 2
    /\ Len(block_iter.v.returned) = MaxPvBlk + 3
    /\ block_iter.v.returned[MaxPvBlk + 2] = None
    /\ block_iter.v.returned[MaxPvBlk + 3] = None

\* C40: a safekeeper timeline that has a compute connected is active.
C40_ComputeImpliesActive == num_computes > 0 => active

\* A compute is connected and the timeline is active although WAL has been
\* committed and its pageserver has caught up with it.
C40_Witness ==
    /\ num_computes = 1
    /\ active
    /\ pageserver_connstr = Some("ps2")
    /\ notified_commit_lsn = 8
    /\ sk_commit_lsn = 8
    /\ replicas[0] = Some([last_received_lsn |-> 8])

\* The relations of every database and the SLRU segments of a timeline.
SizedEntities ==
    UNION {RelationsOf(d) : d \in {0} \cup Databases} \cup {SlruSeg}

\* C36: get_current_logical_size_non_incremental(lsn) is the page size
\* times the sum of get_relish_size(r, lsn) over every relation of the
\* timeline, in all tablespaces and databases, and every SLRU segment that
\* exists at lsn.
C36_LogicalSizeSumsAll ==
    \A t \in open : \A lsn \in {l \in QueryLsns : l <= last_record_lsn[t].last} :
       LET total_blocks ==
              AddSizes(store[t], meta[t],
                       {rel \in SizedEntities : ExistsAt(store[t], rel, lsn)},
                       lsn, 0)
       IN total_blocks.ok =>
             GetCurrentLogicalSizeNonIncremental(t, lsn) =
                Ok(total_blocks.v * BLCKSZ)

\* The chain of the newest version of a page: its base is the newest row
\* that is an Image or an initializing Delta, its records are the Deltas
\* from the base upwards.
IsBase(st, rel, blknum, l) ==
    \/ VersionAt(st, rel, blknum, l).ty = "Image"
    \/ VersionAt(st, rel, blknum, l).rec.will_init
HasBase(st, rel, blknum) ==
    \E l \in PageLsns(st, rel, blknum) : IsBase(st, rel, blknum, l)
ChainBase(st, rel, blknum) ==
    MaxOf({l \in PageLsns(st, rel, blknum) : IsBase(st, rel, blknum, l)})
ChainLsns(st, rel, blknum) ==
    {l \in PageLsns(st, rel, blknum) :
        /\ l >= ChainBase(st, rel, blknum)
        /\ VersionAt(st, rel, blknum, l).ty = "Delta"}
RECURSIVE PayloadLen(_, _, _, _)
PayloadLen(st, rel, blknum, S) ==
    IF S = {} THEN 0
    ELSE LET l == MinOf(S) IN
         Len(VersionAt(st, rel, blknum, l).rec.rec) +
            PayloadLen(st, rel, blknum, S \ {l})
ChainPage(st, rel, blknum) ==
    LET base == VersionAt(st, rel, blknum, ChainBase(st, rel, blknum)) IN
    ChainRedo(st, rel, blknum, ChainLsns(st, rel, blknum),
              IF base.ty = "Image" THEN base.img ELSE <<>>)

\* C32: after checkpoint_internal(distance) with no concurrent writes, every
\* (entity, block), relation or not, whose newest version was a Delta with a
\* chain of total payload length >= distance holds at the top-of-chain LSN
\* an Image, readable by get_page_at_lsn, equal to the redo of that chain;
\* every other block keeps its rows unchanged.
C32_CheckpointMaterializes ==
    [][\A t \in TimelineIds, dist \in CheckpointDistances :
          Checkpoint(t, dist) =>
             \A rel \in Rels, blknum \in Blknums :
                LET st == store[t]
                    ls == PageLsns(st, rel, blknum)
                    top == MaxOf(ls)
                IN (/\ ls # {}
                    /\ WrittenByPuts(st, rel, blknum)
                    /\ HasBase(st, rel, blknum)) =>
                      IF /\ VersionAt(st, rel, blknum, top).ty = "Delta"
                         /\ PayloadLen(st, rel, blknum,
                                       ChainLsns(st, rel, blknum)) >= dist
                      THEN /\ store'[t][DataKey(rel, blknum, top)] =
                                SerPageVersion(PvImage(ChainPage(st, rel, blknum)))
                           /\ GetPageAtLsn(t, rel, blknum, top)' =
                                Ok(ChainPage(st, rel, blknum))
                      ELSE \A l \in ls :
                              store'[t][DataKey(rel, blknum, l)] =
                                 st[DataKey(rel, blknum, l)]]_vars

\* The LSN of a Data or Metadata key.
KeyLsn(k) == k[Len(k)]

\* The keys whose row a step puts or changes.
PutKeys(old, new) ==
    {k \in DOMAIN new : k \notin DOMAIN old \/ new[k] # old[k]}

\* A writer call has put rows or has changed the snapshot cache.
WriterStep == nwrites' # nwrites \/ meta' # meta

PairedWithKeys(st, rel, blknum, records) ==
    \A i \in 1 .. Len(records) :
       /\ DataKey(rel, blknum, records[i][1]) \in DOMAIN st
       /\ st[DataKey(rel, blknum, records[i][1])] =
             SerPageVersion(PvDelta(records[i][2]))
StrictlyIncreasing(records) ==
    \A i \in 1 .. Len(records) - 1 : records[i][1] < records[i + 1][1]

\* C34: every WAL record that get_page_at_lsn and checkpoint_internal hand
\* to the redo collaborator is paired with the LSN of the Data key under
\* which it was stored, and the records are handed over in strictly
\* increasing LSN order.
C34_RedoRecordsKeyed ==
    \A t \in open :
       /\ \A rel \in Rels, blknum \in Blknums, L \in QueryLsns :
             LET r == LookupPage(store[t], rel, blknum, L) IN
             (Published(t, L) /\ r.ok /\ r.v.kind = "Redo") =>
                /\ PairedWithKeys(store[t], rel, blknum, RedoRecords(r.v.data))
                /\ StrictlyIncreasing(RedoRecords(r.v.data))
       /\ \A dist \in CheckpointDistances :
             \A x \in CheckpointRedos(store[t], CheckpointStart(dist)) :
                /\ PairedWithKeys(store[t], x.key[2], x.key[3],
                                  RedoRecords(x.data))
                /\ StrictlyIncreasing(RedoRecords(x.data))

====
